---------------------------- MODULE Spec2Model ----------------------------
(***************************************************************************)
(* A model of RecaptchaService (src/src/services/recaptcha_service.py):    *)
(* the browser engine and shared context, the page pool, the readiness     *)
(* prober, the token executor and the admission gate.                      *)
(*                                                                         *)
(* The service runs on one asyncio event loop: a coroutine runs without    *)
(* interruption from one suspension to the next.  One action of the model  *)
(* is the completion of one awaited browser call (or the wake-up from a    *)
(* lock or the semaphore) followed by everything the coroutine does up to  *)
(* its next suspension.  `async with` on a free asyncio.Lock or on a       *)
(* Semaphore with a free permit does not suspend.  Awaited calls whose     *)
(* outcome the code ignores and that touch no field of the service         *)
(* (wait_for_load_state, _wait_for_page_stable, asyncio.sleep) are part of *)
(* the step of the browser call they follow or precede.                    *)
(*                                                                         *)
(* The browser is the environment: every awaited browser call returns or   *)
(* raises, nondeterministically, within the budget of faults of the        *)
(* scenario (env.faults); a page may crash (env.dead).                     *)
(***************************************************************************)
EXTENDS Naturals, Integers, Sequences, FiniteSets, TLC

VARIABLES
    svc,    \* the fields of the RecaptchaService object
    br,     \* the browser side: live browsers, contexts and pages
    task,   \* the coroutines calling the service: position and locals
    env,    \* the scenario: callers, keys, budgets of faults
    hist,   \* history counters (constructions, insertions, sweeps, closes)
    route,  \* the request handed to the resource router, and its verdict
    js,     \* the page side of one extraction call: its promise and its timers
    accessor,   \* the module-level service instance and the callers of its accessor
    standalone, \* the freestanding service: its browser, contexts and requests
    solver      \* one SelfRecaptchaSolver and the callers of get_recaptcha_token

vars == <<svc, br, task, env, hist, route, js, accessor, standalone, solver>>

\* ---------------------------------------------------------------- constants

TIMEOUT_POLLING_MAX_ATTEMPTS == 15
MAX_EXECUTION_RETRIES == 2
MAX_CONCURRENT_REQUESTS == 5
\* len(self._page_cache) % 10 == 0 in _get_or_create_page
CLEANUP_MODULUS == 10

\* ------------------------------------------------------------------- bounds

\* callers in the lifecycle scenario, and the calls each makes
NumTasks == 2
MaxCalls == 2
\* browser calls that may raise or misbehave in one run
MaxFaults == 2
\* browser calls that may raise in the lifecycle scenario
LifeFaults == 1
\* pages that may crash in the probe scenario
MaxDead == 1
\* pages that crash in the pool scenario (the three dead entries of the sweep)
PoolDead == 3

\* Python's None for a token or an error message; a message is a sequence of
\* its parts (prefix, diagnostic), so that "contains" is decidable.
None == << >>
Token == <<"abc123">>
EmptyToken == <<"">>

\* --------------------------------------------------------------- scenarios

GateScenario ==
    [name |-> "gate", tasks |-> 1 .. (MAX_CONCURRENT_REQUESTS + 1),
     ops |-> {"get_token"}, keys |-> {1},
     calls |-> [t \in 1 .. (MAX_CONCURRENT_REQUESTS + 1) |-> 1],
     faults |-> 0, dead |-> 0, slow |-> FALSE]

LifeScenario ==
    [name |-> "life", tasks |-> 1 .. NumTasks,
     ops |-> {"initialize", "get_token", "close"}, keys |-> {1},
     calls |-> [t \in 1 .. NumTasks |-> MaxCalls],
     faults |-> LifeFaults, dead |-> 0, slow |-> FALSE]

ProbeScenario ==
    [name |-> "probe", tasks |-> {1},
     ops |-> {"get_token"}, keys |-> {1}, calls |-> [t \in {1} |-> MaxCalls],
     faults |-> MaxFaults, dead |-> MaxDead, slow |-> TRUE]

PoolScenario ==
    [name |-> "pool", tasks |-> {1},
     ops |-> {"get_token"}, keys |-> 1 .. (CLEANUP_MODULUS + 1),
     calls |-> [t \in {1} |-> CLEANUP_MODULUS + 1],
     faults |-> 0, dead |-> PoolDead, slow |-> FALSE]

Scenarios == {GateScenario, LifeScenario, ProbeScenario, PoolScenario}

\* two requests for the same key on slow pages, with a fault and a crash
BusyScenario ==
    [name |-> "busy", tasks |-> 1 .. NumTasks,
     ops |-> {"get_token"}, keys |-> {1}, calls |-> [t \in 1 .. NumTasks |-> 1],
     faults |-> LifeFaults, dead |-> MaxDead, slow |-> TRUE]

AllKeys == 1 .. (CLEANUP_MODULUS + 1)

\* ------------------------------------------------------------------- state

\* RecaptchaService.__init__
ServiceInit ==
    [playwright |-> 0, browser |-> 0, shared_context |-> 0, initialized |-> FALSE,
     lock |-> 0, semaphore |-> MAX_CONCURRENT_REQUESTS,
     page_cache |-> [k \in AllKeys |-> 0], page_cache_lock |-> 0]

NoResult == [st |-> "none", tok |-> None, err |-> None]
NoDict == [kind |-> "none", val |-> None]

TaskInit ==
    [pc |-> "idle", op |-> "none", key |-> 0, page |-> 0, i |-> 0, todo |-> {},
     res |-> NoResult, calls |-> 0,
     obj |-> 0, attempts |-> 0, intr |-> 0, probe |-> "none", token |-> NoDict,
     lookup |-> "none", old |-> 0, solo |-> FALSE, fails |-> {}]

\* no request is being routed
NoRoute == [request |-> [host |-> << >>, path |-> << >>, resource_type |-> "none"],
            verdict |-> "none", issued |-> << >>]

\* no extraction call is being followed on the page side
NoCall ==
    [pc |-> "none", win |-> "absent", start |-> "absent", resolved |-> FALSE,
     result |-> NoDict, timeoutId |-> "none", checkInterval |-> "none",
     stopTimer |-> "none", ready |-> "none", execute |-> "none", invoked |-> 0,
     found |-> FALSE]

\* no call of the module-level accessor is being followed
NoAccessor ==
    [global |-> 0, services |-> << >>, call |-> << >>, installed |-> TRUE, faults |-> 0]

\* no request of the freestanding service is being followed
NoStandalone == [initialized |-> FALSE, lock |-> 0, browser |-> 0, contexts |-> << >>, req |-> << >>]

\* no call of a SelfRecaptchaSolver is being followed
NoSolver == [playwright |-> 0, browser |-> 0, starts |-> 0, launches |-> 0, call |-> << >>]

\* the other programs of the repository stand still
Apart == accessor = NoAccessor /\ standalone = NoStandalone /\ solver = NoSolver

BrowserInit ==
    [playwrights |-> 0, liveBrowsers |-> {}, liveCtx |-> {}, ctxBrowser |-> << >>,
     pageCtx |-> << >>, dead |-> {}, closed |-> {}, loaded |-> {}, ready |-> {},
     tag |-> {}]

HistInit ==
    [launches |-> 0, contexts |-> 0, closes |-> 0, insertions |-> 0,
     sweeps |-> 0, init_raised |-> 0]

Init ==
    /\ env \in Scenarios
    /\ svc = ServiceInit
    /\ br = BrowserInit
    /\ task = [t \in env.tasks |-> TaskInit]
    /\ hist = HistInit
    /\ route = NoRoute
    /\ js = NoCall
    /\ Apart

Cur == [svc |-> svc, br |-> br, task |-> task, env |-> env, hist |-> hist]

Commit(s) ==
    /\ svc' = s.svc
    /\ br' = s.br
    /\ task' = s.task
    /\ env' = s.env
    /\ hist' = s.hist
    /\ route' = route
    /\ js' = js
    /\ UNCHANGED <<accessor, standalone, solver>>


\* ----------------------------------------------------------------- helpers

Others(s, t, pcs) == {u \in (DOMAIN s.task) \ {t} : s.task[u].pc \in pcs}

\* asyncio.Lock.acquire returns at once only on a free lock nobody waits for
LockFree(s, t) == s.svc.lock = 0 /\ Others(s, t, {"init_lock"}) = {}

CacheLockFree(s, t) ==
    /\ s.svc.page_cache_lock = 0
    /\ Others(s, t, {"sweep_lock", "cache_lock", "close_lock"}) = {}

Pages(s) == 1 .. Len(s.br.pageCtx)

\* the page is closed or crashed: reading page.url raises (the liveness check
\* of _get_or_create_page and _cleanup_invalid_pages), and so does every call on it
PageGone(s, p) ==
    \/ p \in s.br.dead
    \/ p \in s.br.closed
    \/ s.br.pageCtx[p] \notin s.br.liveCtx

Spend(s) == [s EXCEPT !.env.faults = @ - 1]

Dict(kind, val) == [kind |-> kind, val |-> val]
CtxDestroyed == <<"Execution context was destroyed">>
TargetClosed == <<"Target closed">>

\* the coroutine returns (or raises) to its caller
Return(s, t, r) ==
    [s EXCEPT !.task[t].pc = "idle", !.task[t].res = r, !.task[t].page = 0,
              !.task[t].i = 0, !.task[t].todo = {}, !.task[t].obj = 0,
              !.task[t].lookup = "none", !.task[t].old = 0]

Raised == [st |-> "raised", tok |-> None, err |-> None]
Returned == [st |-> "ret", tok |-> None, err |-> None]

\* ----------------------------------------------------------------- get_token

\* _process_token_result: the extraction call always resolves with a dict
process_token_result_mutant(token) ==
    IF token.kind = "token" /\ token.val # EmptyToken
    THEN [st |-> "ret", tok |-> token.val, err |-> None]
    ELSE [st |-> "ret", tok |-> None, err |-> <<"reCAPTCHA execution failed">>]

process_token_result_mutant_empty(token) ==
    IF token.kind = "token"
    THEN [st |-> "ret", tok |-> token.val, err |-> None]
    ELSE [st |-> "ret", tok |-> None,
          err |-> <<"reCAPTCHA execution failed">> \o token.val]

process_token_result(token) ==
    IF token.kind = "token" /\ token.val # EmptyToken
    THEN [st |-> "ret", tok |-> token.val, err |-> None]
    ELSE [st |-> "ret", tok |-> None,
          err |-> <<"reCAPTCHA execution failed">>
                  \o (IF token.kind = "error" THEN token.val ELSE <<"Unknown error">>)]

\* leaving `async with self._semaphore`: the permit goes back
semaphore_release(s) == [s EXCEPT !.svc.semaphore = @ + 1]

\* get_token, lines 520-524: the executor returned `token`
get_token_result(s, t, token) ==
    Return(semaphore_release([s EXCEPT !.task[t].token = token]), t,
           process_token_result(token))

\* get_token, lines 526-531: `except Exception` of the request path
get_token_except(s, t) ==
    Return(semaphore_release(s), t,
           [st |-> "ret", tok |-> None, err |-> <<"get_token exception">>])

\* what the extraction call of _execute_recaptcha can do on page p:
\* resolve with a token, resolve with a structured error, or raise
ExecNormal(s, p) ==
    IF PageGone(s, p) THEN {Dict("raise", TargetClosed)}
    ELSE IF p \in s.br.ready THEN {Dict("token", Token)}
    ELSE {Dict("error", <<"grecaptcha.ready timeout">>)}

ExecFaulty(s, p) ==
    IF PageGone(s, p) \/ s.env.faults = 0 THEN {}
    ELSE {Dict("raise", CtxDestroyed), Dict("raise", TargetClosed),
          Dict("error", <<"rejected">>), Dict("token", EmptyToken)}

\* _execute_recaptcha, lines 298-400: attempt number task[t].i ended with o
execute_recaptcha_mutant(s, t, o) ==
    LET retry == s.task[t].i
        s1 == [s EXCEPT !.task[t].attempts = @ + 1,
                        !.task[t].intr = @ + (IF o = Dict("raise", CtxDestroyed) THEN 1 ELSE 0)]
    IN  IF o.kind # "raise" THEN get_token_result(s1, t, o)
        ELSE IF o.val = CtxDestroyed /\ retry < MAX_EXECUTION_RETRIES
        THEN [s1 EXCEPT !.task[t].i = retry + 1, !.task[t].pc = "exec_stable"]
        ELSE get_token_result(s1, t, Dict("error", <<"Execution error">> \o o.val))

execute_recaptcha_mutant_any(s, t, o) ==
    LET retry == s.task[t].i
        s1 == [s EXCEPT !.task[t].attempts = @ + 1,
                        !.task[t].intr = @ + (IF o = Dict("raise", CtxDestroyed) THEN 1 ELSE 0)]
    IN  IF o.kind # "raise" THEN get_token_result(s1, t, o)
        ELSE IF retry < MAX_EXECUTION_RETRIES - 1
        THEN [s1 EXCEPT !.task[t].i = retry + 1, !.task[t].pc = "exec_stable"]
        ELSE get_token_result(s1, t, Dict("error", <<"Execution error">> \o o.val))

execute_recaptcha(s, t, o) ==
    LET retry == s.task[t].i
        s1 == [s EXCEPT !.task[t].attempts = @ + 1,
                        !.task[t].intr = @ + (IF o = Dict("raise", CtxDestroyed) THEN 1 ELSE 0)]
    IN  IF o.kind # "raise" THEN get_token_result(s1, t, o)
        ELSE IF o.val = CtxDestroyed /\ retry < MAX_EXECUTION_RETRIES - 1
        THEN IF retry + 1 < MAX_EXECUTION_RETRIES
             THEN [s1 EXCEPT !.task[t].i = retry + 1, !.task[t].pc = "exec_stable"]
             ELSE get_token_result(s1, t, Dict("error", <<"max retries exceeded">>))
        ELSE get_token_result(s1, t, Dict("error", <<"Execution error">> \o o.val))

\* _execute_recaptcha, line 394: _wait_for_page_stable ended (it never raises)
retry_page_stable(s, t) == [s EXCEPT !.task[t].pc = "exec_sleep"]

\* _execute_recaptcha, line 395: asyncio.sleep(RETRY_WAIT_TIME) ended; the loop
\* goes to its next attempt
retry_slept(s, t) == [s EXCEPT !.task[t].pc = "exec"]

\* get_token, line 520: _execute_recaptcha starts (the wait for a stable page,
\* line 296, then the first extraction call)
execute_start(s, t, readiness) ==
    [s EXCEPT !.task[t].pc = "exec", !.task[t].i = 0, !.task[t].probe = readiness]

\* what a callability check (page.evaluate of grecaptcha.execute) can do on p
EvalNormal(s, p) ==
    IF PageGone(s, p) THEN {"err"}
    ELSE IF p \in s.br.ready THEN {"true"} ELSE {"false"}

EvalFaulty(s, p) ==
    IF PageGone(s, p) \/ s.env.faults = 0 THEN {} ELSE {"ctx", "err"}

\* _wait_for_recaptcha_ready, lines 269-292: check number task[t].i ended with o
poll_mutant(s, t, o) ==
    IF o = "true" THEN execute_start(s, t, "Ready")
    ELSE IF o = "ctx" THEN [s EXCEPT !.task[t].pc = "poll_stable"]
    ELSE IF s.task[t].i + 1 < TIMEOUT_POLLING_MAX_ATTEMPTS
    THEN [s EXCEPT !.task[t].i = @ + 1]
    ELSE get_token_except(s, t)

poll_mutant_ctx(s, t, o) ==
    IF o = "true" THEN execute_start(s, t, "Ready")
    ELSE IF o = "ctx" THEN execute_start(s, t, "TimedOut")
    ELSE IF s.task[t].i + 1 < TIMEOUT_POLLING_MAX_ATTEMPTS
    THEN [s EXCEPT !.task[t].i = @ + 1]
    ELSE execute_start(s, t, "TimedOut")

poll_sleep_mutant(s, t) == [s EXCEPT !.task[t].pc = "poll"]

\* _wait_for_recaptcha_ready, lines 289-292: the sleep after a failed check
\* ended; the loop goes to its next check, or ends without one
poll_sleep(s, t) ==
    IF s.task[t].i + 1 < TIMEOUT_POLLING_MAX_ATTEMPTS
    THEN [s EXCEPT !.task[t].i = @ + 1, !.task[t].pc = "poll"]
    ELSE execute_start(s, t, "TimedOut")

poll(s, t, o) ==
    IF o = "true" THEN execute_start(s, t, "Ready")
    ELSE IF o = "ctx" THEN [s EXCEPT !.task[t].pc = "poll_stable"]
    ELSE poll_sleep(s, t)

\* _wait_for_recaptcha_ready, lines 283-285: _wait_for_page_stable ended (it
\* never raises)
poll_page_stable(s, t) == poll_sleep(s, t)

\* _wait_for_recaptcha_ready, lines 256-267: wait_for_function returned (ok) or
\* raised, on its timeout or otherwise
wait_for_function(s, t, ok) ==
    IF ok THEN execute_start(s, t, "Ready")
    ELSE [s EXCEPT !.task[t].pc = "poll", !.task[t].i = 0]

\* _ensure_recaptcha_loaded, line 420
wait_for_recaptcha_ready(s, t) ==
    [s EXCEPT !.task[t].pc = "wait_fn", !.task[t].probe = "Polling"]

\* _inject_recaptcha_script, lines 231-250: the injecting call ended with o
inject_load_mutant(s, t, o) ==
    LET p == s.task[t].page
    IN  IF o = "raise" THEN get_token_except(s, t)
        ELSE wait_for_recaptcha_ready([s EXCEPT !.br.tag = @ \cup {p}], t)

inject_load(s, t, o) ==
    LET p == s.task[t].page
    IN  wait_for_recaptcha_ready(
            IF o = "raise" THEN s ELSE [s EXCEPT !.br.tag = @ \cup {p}], t)

\* _inject_recaptcha_script, lines 221-229: the script-tag check ended with o
inject_exists(s, t, o) ==
    IF o = "false" THEN [s EXCEPT !.task[t].pc = "inj_load"]
    ELSE wait_for_recaptcha_ready(s, t)

\* _ensure_recaptcha_loaded, lines 415-418: the first callability check ended
check_grecaptcha_loaded(s, t, o) ==
    IF o = "true" THEN wait_for_recaptcha_ready(s, t)
    ELSE IF o = "ctx" /\ s.task[t].pc = "check"
    THEN [s EXCEPT !.task[t].pc = "check_retry"]
    ELSE [s EXCEPT !.task[t].pc = "inj_exists", !.task[t].probe = "Injecting"]

\* get_token, lines 498-517: the reload or goto (with its waits and fallbacks)
\* ended; o is "ready", "loading" (loaded, script not yet callable) or "failed"
navigated_mutant(s, t, o) ==
    [s EXCEPT !.task[t].pc = "exec", !.task[t].probe = "Ready"]

navigated(s, t, o) ==
    LET p == s.task[t].page
        b == s.br
    IN  [s EXCEPT !.br = IF o = "failed"
                         THEN [b EXCEPT !.ready = @ \ {p}, !.tag = @ \ {p}]
                         ELSE [b EXCEPT !.loaded = @ \cup {p}, !.tag = @ \cup {p},
                                        !.ready = IF o = "ready" THEN @ \cup {p} ELSE @ \ {p}],
                  !.task[t].pc = "check", !.task[t].probe = "ScriptAbsent"]

\* get_token, lines 496-515: page.url is read and the reload or goto is issued
navigate(s, t, p) ==
    [s EXCEPT !.task[t].page = p,
              !.task[t].pc = IF ~PageGone(s, p) /\ p \in s.br.loaded THEN "reload" ELSE "goto"]

\* ----------------------------------------------------------------- page pool

CacheSize(s) == Cardinality({k \in AllKeys : s.svc.page_cache[k] # 0})

\* _cleanup_invalid_pages, lines 445-454, with the pool lock held
cleanup_invalid_pages_mutant(s) ==
    [s EXCEPT !.svc.page_cache = [k \in AllKeys |-> 0],
              !.hist.sweeps = @ + 1]

cleanup_invalid_pages_mutant_keep(s) == [s EXCEPT !.hist.sweeps = @ + 1]

cleanup_invalid_pages(s) ==
    [s EXCEPT !.svc.page_cache =
                  [k \in AllKeys |->
                      IF @[k] # 0 /\ PageGone(s, @[k]) THEN 0 ELSE @[k]],
              !.hist.sweeps = @ + 1]

\* _get_or_create_page, line 458: the condition of the sweep
cleanup_due(s) == CacheSize(s) > 0 /\ CacheSize(s) % CLEANUP_MODULUS = 0

\* _get_or_create_page, lines 473-475: new_page returned (ok) or raised
new_page_mutant(s, t, ok) ==
    IF ok
    THEN LET p == Len(s.br.pageCtx) + 1
         IN  navigate([s EXCEPT !.br.pageCtx = Append(@, s.task[t].obj),
                                !.svc.page_cache[s.task[t].key] = p,
                                !.svc.page_cache_lock = 0,
                                !.hist.insertions = @ + 1,
                                !.task[t].obj = 0], t, p)
    ELSE Return([s EXCEPT !.svc.page_cache_lock = 0], t,
                [st |-> "ret", tok |-> None, err |-> <<"get_token exception">>])

new_page_mutant_shared(s, t, ok) ==
    IF ok
    THEN LET p == Len(s.br.pageCtx)
         IN  IF p = 0
             THEN get_token_except([s EXCEPT !.svc.page_cache_lock = 0], t)
             ELSE navigate([s EXCEPT !.svc.page_cache[s.task[t].key] = p,
                                     !.svc.page_cache_lock = 0,
                                     !.hist.insertions = @ + 1,
                                     !.task[t].obj = 0], t, p)
    ELSE get_token_except([s EXCEPT !.svc.page_cache_lock = 0], t)

new_page(s, t, ok) ==
    IF ok
    THEN LET p == Len(s.br.pageCtx) + 1
         IN  navigate([s EXCEPT !.br.pageCtx = Append(@, s.task[t].obj),
                                !.svc.page_cache[s.task[t].key] = p,
                                !.svc.page_cache_lock = 0,
                                !.hist.insertions = @ + 1,
                                !.task[t].obj = 0], t, p)
    ELSE get_token_except([s EXCEPT !.svc.page_cache_lock = 0], t)

\* _get_or_create_page, lines 462-473, with the pool lock held by t
lookup_mutant(s, t) ==
    LET k == s.task[t].key
        p == s.svc.page_cache[k]
        s1 == [s EXCEPT !.task[t].old = p,
                        !.task[t].lookup = IF p = 0 THEN "miss" ELSE "hit"]
    IN  IF p # 0
        THEN navigate([s1 EXCEPT !.svc.page_cache_lock = 0], t, p)
        ELSE IF s1.svc.shared_context = 0
        THEN get_token_except([s1 EXCEPT !.svc.page_cache_lock = 0], t)
        ELSE [s1 EXCEPT !.svc.page_cache_lock = t, !.task[t].pc = "new_page",
                        !.task[t].obj = s1.svc.shared_context]

lookup_mutant_hold(s, t) ==
    LET k == s.task[t].key
        p == s.svc.page_cache[k]
        live == p # 0 /\ ~PageGone(s, p)
        s1 == [s EXCEPT !.task[t].old = p,
                        !.task[t].lookup = IF p = 0 THEN "miss"
                                           ELSE IF live THEN "hit" ELSE "stale",
                        !.svc.page_cache[k] = IF live THEN p ELSE 0]
    IN  IF live
        THEN navigate([s1 EXCEPT !.svc.page_cache_lock = t], t, p)
        ELSE IF s1.svc.shared_context = 0
        THEN get_token_except([s1 EXCEPT !.svc.page_cache_lock = 0], t)
        ELSE [s1 EXCEPT !.svc.page_cache_lock = t, !.task[t].pc = "new_page",
                        !.task[t].obj = s1.svc.shared_context]

lookup(s, t) ==
    LET k == s.task[t].key
        p == s.svc.page_cache[k]
        live == p # 0 /\ ~PageGone(s, p)
        s1 == [s EXCEPT !.task[t].old = p,
                        !.task[t].lookup = IF p = 0 THEN "miss"
                                           ELSE IF live THEN "hit" ELSE "stale",
                        !.svc.page_cache[k] = IF live THEN p ELSE 0]
    IN  IF live
        THEN navigate([s1 EXCEPT !.svc.page_cache_lock = 0], t, p)
        ELSE IF s1.svc.shared_context = 0
        THEN get_token_except([s1 EXCEPT !.svc.page_cache_lock = 0], t)
        ELSE [s1 EXCEPT !.svc.page_cache_lock = t, !.task[t].pc = "new_page",
                        !.task[t].obj = s1.svc.shared_context]

\* _get_or_create_page, line 461: `async with self._page_cache_lock`
lock_and_lookup_mutant(s, t) == lookup(s, t)

lock_and_lookup(s, t) ==
    IF CacheLockFree(s, t) THEN lookup(s, t)
    ELSE [s EXCEPT !.task[t].pc = "cache_lock"]

\* _get_or_create_page, lines 458-461 (get_token, line 494)
get_or_create_page(s, t) ==
    IF cleanup_due(s)
    THEN IF CacheLockFree(s, t)
         THEN lock_and_lookup(cleanup_invalid_pages(s), t)
         ELSE [s EXCEPT !.task[t].pc = "sweep_lock"]
    ELSE lock_and_lookup(s, t)

\* ------------------------------------------------------------ admission gate

\* get_token, line 489: `async with self._semaphore`
semaphore_acquire_mutant_early(s, t) ==
    IF s.svc.semaphore > 1
    THEN get_or_create_page([s EXCEPT !.svc.semaphore = @ - 1], t)
    ELSE [s EXCEPT !.task[t].pc = "sem_wait"]

semaphore_acquire_mutant(s, t) ==
    get_or_create_page([s EXCEPT !.svc.semaphore = IF @ > 0 THEN @ - 1 ELSE 0], t)

semaphore_acquire(s, t) ==
    IF s.svc.semaphore > 0
    THEN get_or_create_page([s EXCEPT !.svc.semaphore = @ - 1], t)
    ELSE [s EXCEPT !.task[t].pc = "sem_wait"]

\* ---------------------------------------------------------------- initialize

\* initialize returns: to its caller, or into get_token (line 487)
initialize_returned(s, t) ==
    IF s.task[t].op = "initialize" THEN Return(s, t, Returned)
    ELSE semaphore_acquire(s, t)

\* initialize, lines 135-137: the lock is left and the error raised again; in
\* get_token the call (line 487) stands outside the try, so it raises there too
initialize_raised_mutant(s, t) ==
    Return([s EXCEPT !.svc.lock = 0, !.hist.init_raised = @ + 1], t, Returned)

initialize_raised(s, t) ==
    Return([s EXCEPT !.svc.lock = 0, !.hist.init_raised = @ + 1], t, Raised)

\* initialize, lines 99-104, with self._lock held: the second check
initialize_locked(s, t) ==
    IF s.svc.initialized THEN initialize_returned([s EXCEPT !.svc.lock = 0], t)
    ELSE [s EXCEPT !.svc.lock = t, !.task[t].pc = "init_pw"]

\* initialize, lines 95-98
initialize(s, t) ==
    IF s.svc.initialized THEN initialize_returned(s, t)
    ELSE IF LockFree(s, t) THEN initialize_locked(s, t)
    ELSE [s EXCEPT !.task[t].pc = "init_lock"]

\* initialize, line 104: async_playwright().start() ended
playwright_started(s, t, ok) ==
    IF ok
    THEN [s EXCEPT !.svc.playwright = 1, !.br.playwrights = @ + 1,
                   !.task[t].pc = "init_launch"]
    ELSE initialize_raised(s, t)

\* initialize, lines 105-111: chromium.launch() ended
browser_launched(s, t, ok) ==
    IF ok
    THEN LET b == s.hist.launches + 1
         IN  [s EXCEPT !.svc.browser = b, !.br.liveBrowsers = @ \cup {b},
                       !.hist.launches = b,
                       !.task[t].pc = "init_ctx", !.task[t].obj = b]
    ELSE initialize_raised(s, t)

\* initialize, lines 111-119: browser.new_context() ended
context_created(s, t, ok) ==
    IF ok
    THEN LET c == Len(s.br.ctxBrowser) + 1
         IN  [s EXCEPT !.svc.shared_context = c, !.br.liveCtx = @ \cup {c},
                       !.br.ctxBrowser = Append(@, s.task[t].obj),
                       !.hist.contexts = @ + 1,
                       !.task[t].pc = "init_route", !.task[t].obj = c]
    ELSE initialize_raised(s, t)

\* initialize, lines 119-122: route() ended; add_init_script is called on what
\* self._shared_context holds now (None after a close(): AttributeError)
route_bound(s, t, ok) ==
    IF ok /\ s.svc.shared_context # 0
    THEN [s EXCEPT !.task[t].pc = "init_script", !.task[t].obj = s.svc.shared_context]
    ELSE initialize_raised(s, t)

\* initialize, lines 122-134: add_init_script() ended
init_script_added(s, t, ok) ==
    IF ok
    THEN initialize_returned([s EXCEPT !.svc.initialized = TRUE, !.svc.lock = 0], t)
    ELSE initialize_raised(s, t)

\* --------------------------------------------------------------------- close

\* close, lines 561-562
close_finish_mutant(s, t) == Return(s, t, Returned)

close_finish(s, t) == Return([s EXCEPT !.svc.initialized = FALSE], t, Returned)

\* close, lines 563-564: the outer `except Exception` logs and returns
close_except(s, t) == Return(s, t, Returned)

\* close, line 557
close_after_browser(s, t) ==
    IF s.svc.playwright # 0 THEN [s EXCEPT !.task[t].pc = "close_pw"]
    ELSE close_finish(s, t)

\* close, lines 557-559: playwright.stop() ended
playwright_stopped(s, t, ok) ==
    IF ok
    THEN close_finish([s EXCEPT !.svc.playwright = 0,
                                !.br.playwrights = IF @ > 0 THEN @ - 1 ELSE 0], t)
    ELSE close_except([s EXCEPT !.task[t].fails = @ \cup {"playwright"}], t)

\* close, line 553
close_after_context(s, t) ==
    IF s.svc.browser # 0
    THEN [s EXCEPT !.task[t].pc = "close_browser", !.task[t].obj = s.svc.browser]
    ELSE close_after_browser(s, t)

\* close, lines 553-555: browser.close() ended
browser_closed(s, t, ok) ==
    IF ok
    THEN LET b == s.task[t].obj
         IN  close_after_browser(
                 [s EXCEPT !.svc.browser = 0, !.br.liveBrowsers = @ \ {b},
                           !.br.liveCtx = {c \in @ : s.br.ctxBrowser[c] # b},
                           !.task[t].obj = 0], t)
    ELSE close_except([s EXCEPT !.task[t].fails = @ \cup {"browser"}], t)

\* close, line 545
close_after_pages(s, t) ==
    IF s.svc.shared_context # 0
    THEN [s EXCEPT !.task[t].pc = "close_ctx", !.task[t].obj = s.svc.shared_context]
    ELSE close_after_context(s, t)

\* close, lines 546-551: shared_context.close() ended
context_closed(s, t, ok) ==
    IF ok
    THEN close_after_context(
             [s EXCEPT !.svc.shared_context = 0, !.br.liveCtx = @ \ {s.task[t].obj},
                       !.task[t].obj = 0], t)
    ELSE close_after_context([s EXCEPT !.task[t].obj = 0,
                                       !.task[t].fails = @ \cup {"context"}], t)

\* close, lines 537-543: the next page of the snapshot, or the end of the loop
close_pages(s, t) ==
    IF s.task[t].todo # {} THEN [s EXCEPT !.task[t].pc = "close_page"]
    ELSE close_after_pages([s EXCEPT !.svc.page_cache = [k \in AllKeys |-> 0],
                                     !.svc.page_cache_lock = 0], t)

NextPage(s, t) == CHOOSE p \in s.task[t].todo : \A q \in s.task[t].todo : p <= q

\* close, lines 538-542: page.close() ended
page_closed(s, t, ok) ==
    LET p == NextPage(s, t)
    IN  close_pages([s EXCEPT !.br.closed = IF ok THEN @ \cup {p} ELSE @,
                              !.task[t].todo = @ \ {p},
                              !.task[t].fails = IF ok THEN @ ELSE @ \cup {"page"}], t)

\* close, lines 536-537, with the pool lock held by t
close_locked(s, t) ==
    close_pages([s EXCEPT !.svc.page_cache_lock = t,
                          !.task[t].todo = {s.svc.page_cache[k] : k \in AllKeys} \ {0}], t)

\* close, lines 535-536
close(s, t) ==
    IF CacheLockFree(s, t) THEN close_locked(s, t)
    ELSE [s EXCEPT !.task[t].pc = "close_lock"]

\* ------------------------------------------------------------------ actions

Tasks == DOMAIN task

\* an awaited browser call returns (if it can) or raises: for nothing when it
\* cannot return, else out of the budget of faults
Outcomes(s, can) ==
    {[ok |-> TRUE, s |-> s] : x \in IF can THEN {1} ELSE {}}
    \cup {[ok |-> FALSE, s |-> s] : x \in IF can THEN {} ELSE {1}}
    \cup {[ok |-> FALSE, s |-> Spend(s)] : x \in IF can /\ s.env.faults > 0 THEN {1} ELSE {}}

\* a caller starts a call: its locals are fresh. solo records, for a close(),
\* that no other call has been in flight while it ran and none has started
\* since; fails, the release steps of it that raised.
Start(s, t, op, k) ==
    [s EXCEPT !.task =
        [u \in DOMAIN @ |->
            IF u = t
            THEN [TaskInit EXCEPT !.pc = "run", !.op = op, !.key = k,
                                  !.calls = s.task[t].calls + 1,
                                  !.solo = op = "close" /\ Others(s, t, {"idle"}) = (DOMAIN s.task) \ {t}]
            ELSE [@[u] EXCEPT !.solo = FALSE]]]

\* Callers are alike; they are numbered in the order of their first call.
CanCall(t, op) ==
    /\ task[t].pc = "idle"
    /\ op \in env.ops
    /\ task[t].calls < env.calls[t]
    /\ \A u \in Tasks : u < t => task[u].calls > 0

\* the pool scenario asks for a new key at every call
KeyChoices(t) == IF env.name = "pool" THEN {task[t].calls + 1} ELSE env.keys

\* get_token, lines 486-489
get_token(s, t) ==
    IF ~s.svc.initialized THEN initialize(s, t) ELSE semaphore_acquire(s, t)

CallInitialize(t) ==
    /\ CanCall(t, "initialize")
    /\ Commit(initialize(Start(Cur, t, "initialize", 0), t))

CallGetToken(t) ==
    /\ CanCall(t, "get_token")
    /\ \E k \in KeyChoices(t) : Commit(get_token(Start(Cur, t, "get_token", k), t))

CallClose(t) ==
    /\ CanCall(t, "close")
    /\ Commit(close([Start(Cur, t, "close", 0) EXCEPT !.hist.closes = @ + 1], t))

InitLock(t) ==
    /\ task[t].pc = "init_lock"
    /\ svc.lock = 0
    /\ Commit(initialize_locked(Cur, t))

PlaywrightStarted(t) ==
    /\ task[t].pc = "init_pw"
    /\ \E o \in Outcomes(Cur, TRUE) : Commit(playwright_started(o.s, t, o.ok))

BrowserLaunched(t) ==
    /\ task[t].pc = "init_launch"
    /\ \E o \in Outcomes(Cur, br.playwrights > 0) : Commit(browser_launched(o.s, t, o.ok))

ContextCreated(t) ==
    /\ task[t].pc = "init_ctx"
    /\ \E o \in Outcomes(Cur, task[t].obj \in br.liveBrowsers) :
           Commit(context_created(o.s, t, o.ok))

RouteBound(t) ==
    /\ task[t].pc = "init_route"
    /\ \E o \in Outcomes(Cur, task[t].obj \in br.liveCtx) : Commit(route_bound(o.s, t, o.ok))

InitScriptAdded(t) ==
    /\ task[t].pc = "init_script"
    /\ \E o \in Outcomes(Cur, task[t].obj \in br.liveCtx) :
           Commit(init_script_added(o.s, t, o.ok))

SemaphoreWake(t) ==
    /\ task[t].pc = "sem_wait"
    /\ svc.semaphore > 0
    /\ Commit(semaphore_acquire(Cur, t))

\* the pool lock is granted to a coroutine waiting for it: in
\* _cleanup_invalid_pages (line 444) or in _get_or_create_page (line 461)
CacheLock(t) ==
    /\ task[t].pc \in {"sweep_lock", "cache_lock"}
    /\ svc.page_cache_lock = 0
    /\ Commit(IF task[t].pc = "sweep_lock"
              THEN lock_and_lookup(cleanup_invalid_pages(Cur), t)
              ELSE lookup(Cur, t))

NewPage(t) ==
    /\ task[t].pc = "new_page"
    /\ \E o \in Outcomes(Cur, task[t].obj \in br.liveCtx) : Commit(new_page(o.s, t, o.ok))

Navigated(t) ==
    /\ task[t].pc \in {"reload", "goto"}
    /\ LET gone == PageGone(Cur, task[t].page)
       IN  \/ /\ ~gone
              /\ \E o \in {"ready"} \cup (IF env.slow THEN {"loading"} ELSE {}) :
                     Commit(navigated(Cur, t, o))
           \/ /\ gone
              /\ Commit(navigated(Cur, t, "failed"))
           \/ /\ ~gone
              /\ env.faults > 0
              /\ Commit(navigated(Spend(Cur), t, "failed"))

CheckLoaded(t) ==
    /\ task[t].pc \in {"check", "check_retry"}
    /\ \/ \E o \in EvalNormal(Cur, task[t].page) : Commit(check_grecaptcha_loaded(Cur, t, o))
       \/ \E o \in EvalFaulty(Cur, task[t].page) :
              Commit(check_grecaptcha_loaded(Spend(Cur), t, o))

InjectExists(t) ==
    /\ task[t].pc = "inj_exists"
    /\ LET p == task[t].page
           gone == PageGone(Cur, p)
       IN  \/ /\ ~gone
              /\ Commit(inject_exists(Cur, t, IF p \in br.tag THEN "true" ELSE "false"))
           \/ /\ gone
              /\ Commit(inject_exists(Cur, t, "raise"))
           \/ /\ ~gone
              /\ env.faults > 0
              /\ Commit(inject_exists(Spend(Cur), t, "raise"))

InjectLoad(t) ==
    /\ task[t].pc = "inj_load"
    /\ LET gone == PageGone(Cur, task[t].page)
       IN  \/ /\ ~gone
              /\ Commit(inject_load(Cur, t, "true"))
           \/ /\ gone
              /\ Commit(inject_load(Cur, t, "raise"))
           \/ /\ ~gone
              /\ env.faults > 0
              /\ \E o \in {"false", "raise"} : Commit(inject_load(Spend(Cur), t, o))

WaitForFunction(t) ==
    /\ task[t].pc = "wait_fn"
    /\ LET p == task[t].page
       IN  \E o \in Outcomes(Cur, ~PageGone(Cur, p) /\ p \in br.ready) :
               Commit(wait_for_function(o.s, t, o.ok))

Poll(t) ==
    /\ task[t].pc = "poll"
    /\ \/ \E o \in EvalNormal(Cur, task[t].page) : Commit(poll(Cur, t, o))
       \/ \E o \in EvalFaulty(Cur, task[t].page) : Commit(poll(Spend(Cur), t, o))

PollStable(t) ==
    /\ task[t].pc = "poll_stable"
    /\ Commit(poll_page_stable(Cur, t))

Execute(t) ==
    /\ task[t].pc = "exec"
    /\ \/ \E o \in ExecNormal(Cur, task[t].page) : Commit(execute_recaptcha(Cur, t, o))
       \/ \E o \in ExecFaulty(Cur, task[t].page) : Commit(execute_recaptcha(Spend(Cur), t, o))

ExecStable(t) ==
    /\ task[t].pc = "exec_stable"
    /\ Commit(retry_page_stable(Cur, t))

ExecSleep(t) ==
    /\ task[t].pc = "exec_sleep"
    /\ Commit(retry_slept(Cur, t))

CloseLock(t) ==
    /\ task[t].pc = "close_lock"
    /\ svc.page_cache_lock = 0
    /\ Commit(close_locked(Cur, t))

PageClosed(t) ==
    /\ task[t].pc = "close_page"
    /\ \E o \in Outcomes(Cur, TRUE) : Commit(page_closed(o.s, t, o.ok))

ContextClosed(t) ==
    /\ task[t].pc = "close_ctx"
    /\ \E o \in Outcomes(Cur, TRUE) : Commit(context_closed(o.s, t, o.ok))

BrowserClosed(t) ==
    /\ task[t].pc = "close_browser"
    /\ \E o \in Outcomes(Cur, TRUE) : Commit(browser_closed(o.s, t, o.ok))

PlaywrightStopped(t) ==
    /\ task[t].pc = "close_pw"
    /\ \E o \in Outcomes(Cur, TRUE) : Commit(playwright_stopped(o.s, t, o.ok))

\* the environment: a page crashes or is closed from outside
PageCrash(p) ==
    /\ env.dead > 0
    /\ ~PageGone(Cur, p)
    /\ Commit([Cur EXCEPT !.br.dead = @ \cup {p}, !.env.dead = @ - 1])

\* the environment: the vendor script of a page finishes loading
ScriptLoads(p) ==
    /\ ~PageGone(Cur, p)
    /\ p \in br.tag
    /\ p \notin br.ready
    /\ Commit([Cur EXCEPT !.br.ready = @ \cup {p}])

Next ==
    \/ \E t \in Tasks : CallInitialize(t)
    \/ \E t \in Tasks : CallGetToken(t)
    \/ \E t \in Tasks : CallClose(t)
    \/ \E t \in Tasks : InitLock(t)
    \/ \E t \in Tasks : PlaywrightStarted(t)
    \/ \E t \in Tasks : BrowserLaunched(t)
    \/ \E t \in Tasks : ContextCreated(t)
    \/ \E t \in Tasks : RouteBound(t)
    \/ \E t \in Tasks : InitScriptAdded(t)
    \/ \E t \in Tasks : SemaphoreWake(t)
    \/ \E t \in Tasks : CacheLock(t)
    \/ \E t \in Tasks : NewPage(t)
    \/ \E t \in Tasks : Navigated(t)
    \/ \E t \in Tasks : CheckLoaded(t)
    \/ \E t \in Tasks : InjectExists(t)
    \/ \E t \in Tasks : InjectLoad(t)
    \/ \E t \in Tasks : WaitForFunction(t)
    \/ \E t \in Tasks : Poll(t)
    \/ \E t \in Tasks : PollStable(t)
    \/ \E t \in Tasks : Execute(t)
    \/ \E t \in Tasks : ExecStable(t)
    \/ \E t \in Tasks : ExecSleep(t)
    \/ \E t \in Tasks : CloseLock(t)
    \/ \E t \in Tasks : PageClosed(t)
    \/ \E t \in Tasks : ContextClosed(t)
    \/ \E t \in Tasks : BrowserClosed(t)
    \/ \E t \in Tasks : PlaywrightStopped(t)
    \/ \E p \in Pages(Cur) : PageCrash(p)
    \/ \E p \in Pages(Cur) : ScriptLoads(p)

Spec == Init /\ [][Next]_vars

\* Six callers at the gate of five permits, each asking once for a token of
\* the same key, the browser never failing: the steps such a run can take.
GateInit == Init /\ env = GateScenario

\* the steps of the calls in flight: the event loop runs a coroutine that is
\* ready, and an awaited browser call ends
GateRun ==
    \/ \E t \in Tasks : InitLock(t)
    \/ \E t \in Tasks : PlaywrightStarted(t)
    \/ \E t \in Tasks : BrowserLaunched(t)
    \/ \E t \in Tasks : ContextCreated(t)
    \/ \E t \in Tasks : RouteBound(t)
    \/ \E t \in Tasks : InitScriptAdded(t)
    \/ \E t \in Tasks : SemaphoreWake(t)
    \/ \E t \in Tasks : CacheLock(t)
    \/ \E t \in Tasks : NewPage(t)
    \/ \E t \in Tasks : Navigated(t)
    \/ \E t \in Tasks : CheckLoaded(t)
    \/ \E t \in Tasks : WaitForFunction(t)
    \/ \E t \in Tasks : Execute(t)

GateNext ==
    \/ \E t \in Tasks : CallGetToken(t)
    \/ GateRun

\* GateRun again, written as the step of one call
GateStep ==
    \E t \in Tasks :
        \/ InitLock(t) \/ PlaywrightStarted(t) \/ BrowserLaunched(t) \/ ContextCreated(t)
        \/ RouteBound(t) \/ InitScriptAdded(t) \/ SemaphoreWake(t) \/ CacheLock(t)
        \/ NewPage(t) \/ Navigated(t) \/ CheckLoaded(t) \/ WaitForFunction(t) \/ Execute(t)

\* as long as a call in flight can take a step, one is taken
GateSpec == GateInit /\ [][GateNext]_vars /\ WF_vars(GateStep)

\* two requests arrive at a service whose pool holds CLEANUP_MODULUS pages, as
\* it does after that many requests for different keys: for a pooled key or
\* for a new one, and one page may crash
FullScenario ==
    [name |-> "full", tasks |-> 1 .. NumTasks,
     ops |-> {"get_token"}, keys |-> {1, CLEANUP_MODULUS + 1},
     calls |-> [t \in 1 .. NumTasks |-> 1],
     faults |-> 0, dead |-> MaxDead, slow |-> FALSE]

FullInit ==
    /\ env = FullScenario
    /\ svc = [ServiceInit EXCEPT
                  !.playwright = 1, !.browser = 1, !.shared_context = 1,
                  !.initialized = TRUE,
                  !.page_cache = [k \in AllKeys |-> IF k <= CLEANUP_MODULUS THEN k ELSE 0]]
    /\ br = [BrowserInit EXCEPT
                 !.playwrights = 1, !.liveBrowsers = {1}, !.liveCtx = {1},
                 !.ctxBrowser = <<1>>,
                 !.pageCtx = [p \in 1 .. CLEANUP_MODULUS |-> 1],
                 !.loaded = 1 .. CLEANUP_MODULUS, !.tag = 1 .. CLEANUP_MODULUS,
                 !.ready = 1 .. CLEANUP_MODULUS]
    /\ task = [t \in env.tasks |-> TaskInit]
    /\ hist = [HistInit EXCEPT !.launches = 1, !.contexts = 1,
                               !.insertions = CLEANUP_MODULUS]
    /\ route = NoRoute
    /\ js = NoCall
    /\ Apart

FullNext ==
    \/ \E t \in Tasks : CallGetToken(t)
    \/ \E t \in Tasks : CacheLock(t)
    \/ \E t \in Tasks : NewPage(t)
    \/ \E t \in Tasks : Navigated(t)
    \/ \E t \in Tasks : CheckLoaded(t)
    \/ \E t \in Tasks : InjectExists(t)
    \/ \E t \in Tasks : WaitForFunction(t)
    \/ \E t \in Tasks : Poll(t)
    \/ \E t \in Tasks : Execute(t)
    \/ \E p \in Pages(Cur) : PageCrash(p)

FullSpec == FullInit /\ [][FullNext]_vars

\* the requests of the busy scenario: no close(), and too few callers to wait
\* at the gate
BusyInit ==
    /\ env = BusyScenario
    /\ svc = ServiceInit
    /\ br = BrowserInit
    /\ task = [t \in env.tasks |-> TaskInit]
    /\ hist = HistInit
    /\ route = NoRoute
    /\ js = NoCall
    /\ Apart

\* a step of one call in flight
BusyStep ==
    \E t \in Tasks :
        \/ InitLock(t) \/ PlaywrightStarted(t) \/ BrowserLaunched(t) \/ ContextCreated(t)
        \/ RouteBound(t) \/ InitScriptAdded(t) \/ CacheLock(t) \/ NewPage(t)
        \/ Navigated(t) \/ CheckLoaded(t) \/ InjectExists(t) \/ InjectLoad(t)
        \/ WaitForFunction(t) \/ Poll(t) \/ PollStable(t) \/ Execute(t)
        \/ ExecStable(t) \/ ExecSleep(t)

BusyNext ==
    \/ \E t \in Tasks : CallGetToken(t)
    \/ BusyStep
    \/ \E p \in Pages(Cur) : PageCrash(p)
    \/ \E p \in Pages(Cur) : ScriptLoads(p)

\* every awaited call ends: as long as a call in flight can take a step, one
\* is taken
BusySpec == BusyInit /\ [][BusyNext]_vars /\ WF_vars(BusyStep)

\* ----------------------------------------------------- the extraction call

\* The script that _execute_recaptcha evaluates in the page (lines 300-387):
\* one promise, resolved through the flag `resolved`, and the callbacks the
\* script registers. Every callback of the page's event loop is one step.
\* js.win is what the script sees of window.grecaptcha: "absent", "object"
\* (neither ready nor execute is a function), "ready" (ready is a function,
\* execute is not) or "callable" (execute is a function).
Windows == {"absent", "object", "ready", "callable"}

\* what the library can become while the script waits
Later(w) ==
    CASE w = "absent" -> {"object", "ready", "callable"}
      [] w = "object" -> {"ready", "callable"}
      [] w = "ready" -> {"callable"}
      [] OTHER -> {}

ReadyTimeout == Dict("error", <<"grecaptcha.ready timeout">>)

clearTimeout(j) == [j EXCEPT !.timeoutId = IF @ = "armed" THEN "cleared" ELSE @]

\* lines 306-334
executeRecaptcha_mutant(j) ==
    IF j.win = "absent"
    THEN [j EXCEPT !.resolved = TRUE,
                   !.result = Dict("error", <<"window.grecaptcha missing">>)]
    ELSE IF j.win # "callable"
    THEN [j EXCEPT !.resolved = TRUE,
                   !.result = Dict("error", <<"window.grecaptcha.execute is not a function">>)]
    ELSE [j EXCEPT !.execute = "pending", !.invoked = @ + 1]

executeRecaptcha(j) ==
    IF j.resolved THEN j
    ELSE IF j.win = "absent"
    THEN [j EXCEPT !.resolved = TRUE,
                   !.result = Dict("error", <<"window.grecaptcha missing">>)]
    ELSE IF j.win # "callable"
    THEN [j EXCEPT !.resolved = TRUE,
                   !.result = Dict("error", <<"window.grecaptcha.execute is not a function">>)]
    ELSE [j EXCEPT !.execute = "pending", !.invoked = @ + 1]

\* lines 303-304, 336-381: the body of the promise
promise_body(j) ==
    LET j1 == [j EXCEPT !.pc = "running", !.start = j.win, !.timeoutId = "armed"]
    IN  IF j.win = "callable" THEN executeRecaptcha(clearTimeout(j1))
        ELSE IF j.win = "ready" THEN [j1 EXCEPT !.ready = "registered"]
        ELSE [j1 EXCEPT !.checkInterval = "armed", !.stopTimer = "armed"]

\* lines 336-343: the callback of timeoutId
timeout_callback(j) ==
    LET j1 == [j EXCEPT !.timeoutId = "fired"]
    IN  IF j.resolved THEN j1
        ELSE [j1 EXCEPT !.resolved = TRUE, !.result = ReadyTimeout]

\* lines 352-355 and 370-373: the callback given to grecaptcha.ready
ready_callback(j) == executeRecaptcha(clearTimeout([j EXCEPT !.ready = "fired"]))

\* lines 357-376: one tick of checkInterval
interval_callback(j) ==
    IF j.resolved THEN [j EXCEPT !.checkInterval = "cleared"]
    ELSE IF j.win = "callable"
    THEN executeRecaptcha(clearTimeout([j EXCEPT !.checkInterval = "cleared",
                                                 !.found = TRUE]))
    ELSE IF j.win = "ready"
    THEN [j EXCEPT !.checkInterval = "cleared", !.ready = "registered"]
    ELSE j

\* lines 378-380: the timer that stops checkInterval
stop_callback(j) ==
    [j EXCEPT !.stopTimer = "fired",
              !.checkInterval = IF @ = "armed" THEN "cleared" ELSE @]

\* lines 321-333: the promise of grecaptcha.execute was settled
execute_settled(j, o) ==
    LET j1 == [j EXCEPT !.execute = IF o.kind = "token" THEN "fulfilled" ELSE "rejected"]
    IN  IF j.resolved THEN j1 ELSE [j1 EXCEPT !.resolved = TRUE, !.result = o]

Js(j) == js' = j /\ UNCHANGED <<svc, br, task, env, hist, route, accessor, standalone, solver>>

ExtractInit ==
    /\ env = ProbeScenario
    /\ svc = ServiceInit
    /\ br = BrowserInit
    /\ task = [t \in env.tasks |-> TaskInit]
    /\ hist = HistInit
    /\ route = NoRoute
    /\ js \in {[NoCall EXCEPT !.pc = "start", !.win = w] : w \in Windows}
    /\ Apart

ExtractStart == js.pc = "start" /\ Js(promise_body(js))

TimeoutFires == js.timeoutId = "armed" /\ Js(timeout_callback(js))

ReadyCallback == js.ready = "registered" /\ Js(ready_callback(js))

IntervalTick == js.checkInterval = "armed" /\ Js(interval_callback(js))

IntervalStop == js.stopTimer = "armed" /\ Js(stop_callback(js))

ExecuteSettles ==
    /\ js.execute = "pending"
    /\ \E o \in {Dict("token", Token), Dict("token", EmptyToken), Dict("error", <<"rejected">>)} :
           Js(execute_settled(js, o))

\* the library goes on loading in the page
WindowLoads ==
    /\ js.pc \in {"start", "running"}
    /\ \E w \in Later(js.win) : Js([js EXCEPT !.win = w])

\* line 300: page.evaluate returns what the promise was resolved with
EvaluateReturns ==
    /\ js.pc = "running"
    /\ js.resolved
    /\ Js([js EXCEPT !.pc = "returned"])

ExtractNext ==
    \/ ExtractStart
    \/ TimeoutFires
    \/ ReadyCallback
    \/ IntervalTick
    \/ IntervalStop
    \/ ExecuteSettles
    \/ WindowLoads
    \/ EvaluateReturns

\* the timers of the page and the return of evaluate are not up to the
\* environment: a timer that stays armed fires
ExtractTimers == ExtractStart \/ TimeoutFires \/ IntervalStop \/ EvaluateReturns

ExtractSpec == ExtractInit /\ [][ExtractNext]_vars /\ WF_vars(ExtractTimers)

\* ----------------------------------------------------------- resource router

\* A URL is a sequence of atoms (words and separators), so that Python's
\* `domain in url` is the search of one sequence inside another.
Hosts ==
    {<<"www", ".", "google", ".", "com">>, <<"WWW", ".", "GOOGLE", ".", "COM">>,
     <<"www", ".", "gstatic", ".", "com">>, <<"www", ".", "recaptcha", ".", "net">>,
     <<"labs", ".", "google">>, <<"google", ".", "example", ".", "org">>,
     <<"example", ".", "com">>, <<"cdn", ".", "example", ".", "com">>}

Paths ==
    {<<"index">>, <<"a", ".", "png">>, <<"recaptcha", "/", "api", ".", "js">>,
     <<"r", "?", "ref", "=", "google", ".", "com">>, <<"Google", "/", "logo">>}

ResourceTypes ==
    {"document", "script", "xhr", "fetch", "websocket", "image", "stylesheet", "font",
     "media", "other", "manifest", "eventsource", "texttrack", "ping"}

Requests == [host : Hosts, path : Paths, resource_type : ResourceTypes]

\* str.lower() on the atoms of the URLs above
LowerAtom(a) ==
    CASE a = "WWW" -> "www"
      [] a = "GOOGLE" -> "google"
      [] a = "Google" -> "google"
      [] a = "COM" -> "com"
      [] OTHER -> a

Lower(u) == [i \in 1 .. Len(u) |-> LowerAtom(u[i])]

\* `domain in url`
In(d, u) == \E i \in 0 .. (Len(u) - Len(d)) : SubSeq(u, i + 1, i + Len(d)) = d

\* request.url
Url(request) == <<"https", "://">> \o request.host \o <<"/">> \o request.path

allowed_types == {"document", "script", "xhr", "fetch", "websocket"}

blocked_types == {"image", "stylesheet", "font", "media"}

google_domains ==
    {<<"recaptcha">>, <<"google", ".", "com">>, <<"googleapis", ".", "com">>,
     <<"gstatic", ".", "com">>, <<"googleusercontent", ".", "com">>,
     <<"google-analytics", ".", "com">>}

other_domains == {<<"google">>, <<"labs", ".", "google">>}

\* _route_handler: "continue" for route.continue_(), "abort" for route.abort()
route_handler_mutant(request) ==
    LET url == Lower(Url(request))
        resource_type == request.resource_type
    IN  IF resource_type \in allowed_types THEN "continue"
        ELSE IF resource_type \in blocked_types THEN "abort"
        ELSE IF \E domain \in google_domains : In(domain, url) THEN "continue"
        ELSE IF resource_type = "other"
        THEN IF \E domain \in other_domains : In(domain, url) THEN "continue" ELSE "abort"
        ELSE "continue"

route_handler(request) ==
    LET url == Lower(Url(request))
        resource_type == request.resource_type
    IN  IF \E domain \in google_domains : In(domain, url) THEN "continue"
        ELSE IF resource_type \in allowed_types THEN "continue"
        ELSE IF resource_type \in blocked_types THEN "abort"
        ELSE IF resource_type = "other"
        THEN IF \E domain \in other_domains : In(domain, url) THEN "continue" ELSE "abort"
        ELSE "continue"

\* _route_handler, lines 158-181, statement by statement: the test of each
\* branch, the call it makes on the route, and whether it returns after it
route_branches_mutant(request) ==
    LET url == Lower(Url(request))
        resource_type == request.resource_type
    IN  << [test |-> \E domain \in google_domains : In(domain, url),
            verdict |-> "continue", returns |-> TRUE],
           [test |-> resource_type \in allowed_types, verdict |-> "continue", returns |-> TRUE],
           [test |-> resource_type \in blocked_types, verdict |-> "abort", returns |-> FALSE],
           [test |-> resource_type = "other",
            verdict |-> IF \E domain \in other_domains : In(domain, url)
                        THEN "continue" ELSE "abort",
            returns |-> TRUE],
           [test |-> TRUE, verdict |-> "continue", returns |-> TRUE] >>

route_branches(request) ==
    LET url == Lower(Url(request))
        resource_type == request.resource_type
    IN  << [test |-> \E domain \in google_domains : In(domain, url),
            verdict |-> "continue", returns |-> TRUE],
           [test |-> resource_type \in allowed_types, verdict |-> "continue", returns |-> TRUE],
           [test |-> resource_type \in blocked_types, verdict |-> "abort", returns |-> TRUE],
           [test |-> resource_type = "other",
            verdict |-> IF \E domain \in other_domains : In(domain, url)
                        THEN "continue" ELSE "abort",
            returns |-> TRUE],
           [test |-> TRUE, verdict |-> "continue", returns |-> TRUE] >>

\* the calls made on the route by running the branches in order
RECURSIVE route_run(_, _)
route_run(branches, issued) ==
    IF branches = << >> THEN issued
    ELSE LET b == Head(branches)
         IN  IF ~b.test THEN route_run(Tail(branches), issued)
             ELSE IF b.returns THEN Append(issued, b.verdict)
             ELSE route_run(Tail(branches), Append(issued, b.verdict))

route_verdicts(request) == route_run(route_branches(request), << >>)

\* the browser hands one request of a page of the shared context to the router
RouteInit ==
    /\ env = ProbeScenario
    /\ svc = ServiceInit
    /\ br = BrowserInit
    /\ task = [t \in env.tasks |-> TaskInit]
    /\ hist = HistInit
    /\ route \in [request : Requests, verdict : {"pending"}, issued : {<< >>}]
    /\ js = NoCall
    /\ Apart

RouteHandler ==
    /\ route.verdict = "pending"
    /\ route' = [route EXCEPT !.verdict = route_handler(route.request),
                               !.issued = route_verdicts(route.request)]
    /\ UNCHANGED <<svc, br, task, env, hist, js, accessor, standalone, solver>>

RouteNext == RouteHandler

RouteSpec == RouteInit /\ [][RouteNext]_vars

\* --------------------------------------------------------------- properties

Constructing ==
    {t \in Tasks : task[t].pc \in {"init_pw", "init_launch", "init_ctx", "init_route",
                                     "init_script"}}

\* the positions of get_token inside `async with self._semaphore`
GatePcs ==
    {"sweep_lock", "cache_lock", "new_page", "reload", "goto", "check", "check_retry",
     "inj_exists", "inj_load", "wait_fn", "poll", "poll_stable", "exec", "exec_stable",
     "exec_sleep"}

InsideGate == {t \in Tasks : task[t].pc \in GatePcs}

\* the positions from the start of the navigation to the result
UsePcs == GatePcs \ {"sweep_lock", "cache_lock", "new_page"}

ProbePcs ==
    {"check", "check_retry", "inj_exists", "inj_load", "wait_fn", "poll", "poll_stable"}

Finished(t) == task[t].pc = "idle" /\ task[t].res.st # "none"

\* C1: as long as close() has not been called, whatever initialize() calls are
\* made (concurrent, repeated), the browser is launched exactly once and the
\* shared context created exactly once: never twice, once when the service is
\* initialized; one construction at most is in flight, and an initialize()
\* that has returned leaves the service initialized.
C1_ConstructedExactlyOnce ==
    hist.closes = 0 =>
        /\ hist.launches <= 1
        /\ hist.contexts <= 1
        /\ Cardinality(Constructing) <= 1
        /\ svc.initialized => hist.launches = 1 /\ hist.contexts = 1
        /\ \A t \in Tasks :
               Finished(t) /\ task[t].op = "initialize" /\ task[t].res.st = "ret"
                   => svc.initialized

\* C1, the part of it the code keeps: while no construction step has raised
\* (and close() has not been called), the statement above holds.
C1_OnceWhenNoStepRaises ==
    hist.init_raised = 0 => C1_ConstructedExactlyOnce

\* C2: at most MAX_CONCURRENT_REQUESTS requests are past the admission gate and
\* have not released it.
C2_GateBound == Cardinality(InsideGate) <= MAX_CONCURRENT_REQUESTS

C2_GateFull ==
    /\ Cardinality(InsideGate) = MAX_CONCURRENT_REQUESTS
    /\ \E t \in Tasks : task[t].pc = "sem_wait"

\* C3: no permit is leaked: the free permits and the requests inside the gate
\* add up to MAX_CONCURRENT_REQUESTS in every state, whatever way requests
\* ended (token, failure, exception), so that all permits are free when no
\* request is in flight.
C3_PermitsConserved ==
    /\ svc.semaphore + Cardinality(InsideGate) = MAX_CONCURRENT_REQUESTS
    /\ (\A t \in Tasks : task[t].pc = "idle") => svc.semaphore = MAX_CONCURRENT_REQUESTS

C3_ReleasedAfterException ==
    \E t \in Tasks :
        /\ Finished(t)
        /\ task[t].res.err = <<"get_token exception">>
        /\ svc.semaphore = MAX_CONCURRENT_REQUESTS

\* C4: get_token never raises to its caller.
C4_GetTokenNeverRaises ==
    \A t \in Tasks : task[t].op = "get_token" => task[t].res.st # "raised"

\* C5: no two requests are between the start of their navigation and their
\* result on the same page.
C5_PageUsedByOne ==
    \A t, u \in Tasks :
        t # u /\ task[t].pc \in UsePcs /\ task[u].pc \in UsePcs
            => task[t].page # task[u].page

\* the step in which t looks its key up in the pool
LooksUp(t) == task[t].lookup = "none" /\ task'[t].lookup # "none"

\* C6: the lookup of _get_or_create_page: a pooled page that is live is
\* returned and no page is created; a pooled page that is not live has its
\* entry removed and a new page is asked for; an absent key has a new page
\* asked for (the request fails there only when the service holds no shared
\* context to create a page in); and a page that new_page() delivers is
\* entered under the key and returned.
C6_GetOrCreate ==
    [][\A t \in Tasks :
           LET k == task'[t].key
               p == svc.page_cache[k]
               n == Len(br.pageCtx)
           IN  /\ LooksUp(t) /\ p # 0 /\ ~PageGone(Cur, p)
                   => /\ task'[t].page = p
                      /\ task'[t].pc \in {"reload", "goto"}
                      /\ svc'.page_cache[k] = p
                      /\ Len(br'.pageCtx) = n
               /\ LooksUp(t) /\ (p = 0 \/ PageGone(Cur, p))
                   => /\ svc'.page_cache[k] = 0
                      /\ Len(br'.pageCtx) = n
                      /\ \/ task'[t].pc = "new_page"
                         \/ svc.shared_context = 0 /\ Finished(t)'
               /\ task[t].pc = "new_page" /\ Len(br'.pageCtx) = n + 1
                   => /\ task'[t].page = n + 1
                      /\ task'[t].pc = "goto"
                      /\ svc'.page_cache[task[t].key] = n + 1
                      /\ \A j \in AllKeys \ {task[t].key} :
                             svc'.page_cache[j] = svc.page_cache[j]]_vars

C6_StaleReplaced ==
    \E t \in Tasks :
        /\ task[t].lookup = "stale"
        /\ task[t].pc = "goto"
        /\ task[t].page # task[t].old
        /\ svc.page_cache[task[t].key] = task[t].page

DeadEntries(s) == {k \in AllKeys : s.svc.page_cache[k] # 0 /\ PageGone(s, s.svc.page_cache[k])}

Executed(t) == Finished(t) /\ task[t].token.kind # "none"

\* C8: the executor makes at most MAX_EXECUTION_RETRIES extraction attempts,
\* and exactly that many when every attempt was interrupted by a navigation.
C8_AttemptsBounded ==
    \A t \in Tasks :
        /\ task[t].attempts <= MAX_EXECUTION_RETRIES
        /\ Executed(t) /\ task[t].intr = task[t].attempts
               => task[t].attempts = MAX_EXECUTION_RETRIES

C8_AllAttemptsInterrupted ==
    \E t \in Tasks :
        /\ Executed(t)
        /\ task[t].intr = MAX_EXECUTION_RETRIES
        /\ task[t].attempts = MAX_EXECUTION_RETRIES

\* C9: when every attempt was interrupted by a navigation, the executor
\* returns the failure "max retries exceeded".
C9_MaxRetriesReason ==
    \A t \in Tasks :
        Executed(t) /\ task[t].intr = task[t].attempts
            => /\ task[t].token = Dict("error", <<"max retries exceeded">>)
               /\ task[t].res.err = <<"reCAPTCHA execution failed", "max retries exceeded">>

\* C10: the readiness phase ends only by starting the executor, the prober
\* Ready or TimedOut (its checks and the injection may have raised); and a
\* token that the first extraction attempt returns is the result of the
\* request.
C10_ReadinessNeverAborts ==
    [][\A t \in Tasks :
           /\ task[t].pc \in ProbePcs /\ task'[t].pc \notin ProbePcs
                  => /\ task'[t].pc = "exec"
                     /\ task'[t].probe \in {"Ready", "TimedOut"}
                     /\ task'[t].attempts = 0
           /\ task[t].pc = "exec" /\ task'[t].attempts = 1
              /\ task'[t].token.kind = "token" /\ task'[t].token.val # EmptyToken
                  => /\ task'[t].res.st = "ret"
                     /\ task'[t].res.tok = task'[t].token.val
                     /\ task'[t].res.err = None]_vars

C10_SuccessAfterTimedOut ==
    \E t \in Tasks :
        /\ Finished(t)
        /\ task[t].probe = "TimedOut"
        /\ task[t].attempts = 1
        /\ task[t].res.tok = Token

\* the message m contains the text d
Contains(m, d) ==
    \E i \in 0 .. (Len(m) - Len(d)) : SubSeq(m, i + 1, i + Len(d)) = d

\* the executor of t's finished get_token call returned a dict
ExecutorReturned(t) ==
    Finished(t) /\ task[t].op = "get_token" /\ task[t].token.kind # "none"

\* C11: when the extraction call resolved with a structured error, get_token
\* returns no token and a reason that contains the diagnostic of that error;
\* when it resolved with a non-empty token, get_token returns exactly that
\* token and no reason.
C11_ResultCarriesDiagnostic ==
    \A t \in Tasks :
        ExecutorReturned(t) =>
            /\ task[t].token.kind = "error" =>
                   /\ task[t].res.st = "ret"
                   /\ task[t].res.tok = None
                   /\ task[t].token.val # None
                   /\ Contains(task[t].res.err, task[t].token.val)
            /\ task[t].token.kind = "token" /\ task[t].token.val # EmptyToken =>
                   task[t].res = [st |-> "ret", tok |-> task[t].token.val, err |-> None]

C11_StructuredErrorReported ==
    \E t \in Tasks :
        /\ ExecutorReturned(t)
        /\ task[t].token = Dict("error", <<"rejected">>)
        /\ task[t].attempts = 1
        /\ task[t].res.err = <<"reCAPTCHA execution failed", "rejected">>

\* the state of a service that was never initialized
Uninitialized ==
    /\ svc.playwright = 0
    /\ svc.browser = 0
    /\ svc.shared_context = 0
    /\ ~svc.initialized
    /\ \A k \in AllKeys : svc.page_cache[k] = 0

\* t's last call was a close() that has returned, ran alone, and is the
\* latest call on the service
ClosedAlone(t) == Finished(t) /\ task[t].op = "close" /\ task[t].solo

\* C12: close() never raises, and a close() none of whose release steps
\* raised leaves the service uninitialized (no engine, no session, empty pool,
\* not ready), whatever the service was before: never initialized, initialized,
\* or already closed.
C12_CloseIdempotent ==
    \A t \in Tasks :
        /\ task[t].op = "close" => task[t].res.st # "raised"
        /\ ClosedAlone(t) /\ task[t].fails = {} => Uninitialized

\* initialize(), close(), close(): the second close() has returned
C12_ClosedTwice ==
    /\ env.name = "life"
    /\ ClosedAlone(2)
    /\ task[2].fails = {}
    /\ task[1].op = "close" /\ Finished(1) /\ task[1].fails = {}
    /\ hist.launches = 1 /\ hist.contexts = 1 /\ hist.closes = 2
    /\ br.liveBrowsers = {}
    /\ Uninitialized

\* C13: close() releases the pages, then the shared context, then the browser,
\* then the driver, and a release step that raises stops nothing: when a
\* close() that ran alone has returned, the service is not initialized, the
\* pool is empty, and whatever of context, browser and driver the service
\* still holds is held because its own release step was attempted and raised.
C13_ReleaseTolerant ==
    \A t \in Tasks :
        /\ task[t].pc \in {"close_ctx", "close_browser", "close_pw"} => task[t].todo = {}
        /\ task[t].pc \in {"close_browser", "close_pw"} /\ task[t].solo =>
               svc.shared_context = 0 \/ "context" \in task[t].fails
        /\ task[t].pc = "close_pw" /\ task[t].solo => svc.browser = 0
        /\ ClosedAlone(t) =>
               /\ ~svc.initialized
               /\ \A k \in AllKeys : svc.page_cache[k] = 0
               /\ svc.shared_context # 0 => "context" \in task[t].fails
               /\ svc.browser # 0 => "browser" \in task[t].fails
               /\ svc.playwright # 0 => "playwright" \in task[t].fails

InitPcs == {"init_pw", "init_launch", "init_ctx", "init_route", "init_script"}

\* t leaves the construction of initialize() in this step, and not by the
\* success of its last step
ConstructionFails(t) ==
    /\ task[t].pc \in InitPcs
    /\ task'[t].pc \notin InitPcs
    /\ ~(/\ task[t].pc = "init_script"
          /\ env'.faults = env.faults
          /\ task[t].obj \in br.liveCtx)

\* C14: when a construction step of initialize() fails, the call ends by
\* raising to its caller, the lock is released and the service is left not
\* initialized.
C14_InitFailurePropagates ==
    [][\A t \in Tasks :
          ConstructionFails(t) =>
              /\ task'[t].pc = "idle"
              /\ task'[t].res = Raised
              /\ ~svc'.initialized
              /\ svc'.lock = 0]_vars

\* initialize() raised at the router binding or the bootstrap script, with
\* browser and context already built
C14_RaisedLate ==
    \E t \in Tasks :
        /\ Finished(t)
        /\ task[t].op = "initialize"
        /\ task[t].res = Raised
        /\ ~svc.initialized
        /\ svc.browser # 0
        /\ svc.shared_context # 0

Routed == route.verdict \in {"continue", "abort"}

\* the host of the request matches an entry of the list (hosts compare
\* without regard to case)
HostMatches(request, domains) == \E d \in domains : In(d, Lower(request.host))

\* C15: a routed request whose host matches the vendor allow-list is allowed,
\* whatever its resource class.
C15_VendorNeverBlocked ==
    Routed /\ HostMatches(route.request, google_domains) => route.verdict = "continue"

\* an image from a vendor host has been allowed
C15_VendorImageAllowed ==
    /\ Routed
    /\ HostMatches(route.request, google_domains)
    /\ route.request.resource_type = "image"
    /\ route.request.path = <<"a", ".", "png">>
    /\ route.verdict = "continue"

\* the ordered policy of the classes, for a request off the vendor list
ClassPolicy(request, other_ok) ==
    IF request.resource_type \in allowed_types THEN "continue"
    ELSE IF request.resource_type \in blocked_types THEN "abort"
    ELSE IF request.resource_type = "other"
    THEN IF other_ok THEN "continue" ELSE "abort"
    ELSE "continue"

\* C16: for a routed request whose host is not on the vendor allow-list the
\* verdict is that of the ordered policy: allow document, script, xhr, fetch,
\* websocket; block image, stylesheet, font, media; for 'other' allow exactly
\* when the host matches the secondary list; allow every remaining class.
C16_VerdictFollowsPolicy ==
    Routed /\ ~HostMatches(route.request, google_domains) =>
        route.verdict = ClassPolicy(route.request, HostMatches(route.request, other_domains))

\* C16, with the lists matched against the whole URL as the code does: the
\* verdict of a request whose URL contains no vendor entry is that of the
\* ordered policy.
C16_PolicyOnWholeUrl ==
    Routed /\ ~(\E d \in google_domains : In(d, Lower(Url(route.request)))) =>
        route.verdict = ClassPolicy(route.request,
                                    \E d \in other_domains : In(d, Lower(Url(route.request))))

\* health: the readiness flag is the _initialized field of the service
health(s) == [browser_initialized |-> s.svc.initialized]

\* C17: in every state the readiness flag is true only if the browser and the
\* shared context both exist; it is false as long as no initialize() has
\* completed, and false once a close() has returned.
C17_ReadyMeansEngineUp ==
    /\ health(Cur).browser_initialized => svc.browser # 0 /\ svc.shared_context # 0
    /\ hist.contexts = 0 => ~health(Cur).browser_initialized
    /\ \A t \in Tasks : ClosedAlone(t) => ~health(Cur).browser_initialized

\* C18: a result that get_token returns is either a non-empty token and no
\* error, or no token and a non-empty reason: never both, never neither.
C18_SuccessOrFailure ==
    \A t \in Tasks :
        Finished(t) /\ task[t].op = "get_token" /\ task[t].res.st = "ret" =>
            \/ /\ task[t].res.tok \notin {None, EmptyToken}
               /\ task[t].res.err = None
            \/ /\ task[t].res.tok = None
               /\ task[t].res.err # None

\* the extraction call resolved with an empty token: a Failure is returned
C18_EmptyTokenIsFailure ==
    \E t \in Tasks :
        /\ ExecutorReturned(t)
        /\ task[t].token = Dict("token", EmptyToken)
        /\ task[t].res.tok = None
        /\ task[t].res.err # None

Waiting(t) == task[t].pc = "sem_wait"

\* C19: a request that arrives at a full gate waits; a request is admitted
\* only in a step that finds a free permit, so a waiting one only after an
\* admitted request has released its permit; and, the calls in flight making
\* progress, no request waits forever: the callers making finitely many
\* calls, from some state on no request is waiting at the gate.
C19_WaitsThenAdmitted ==
    /\ [][\A t \in Tasks :
             /\ task[t].pc \notin GatePcs /\ task'[t].pc \in GatePcs =>
                    svc.semaphore > 0 /\ Cardinality(InsideGate) < MAX_CONCURRENT_REQUESTS
             /\ ~Waiting(t) /\ Waiting(t)' => svc.semaphore = 0]_vars
    /\ <>[](\A t \in Tasks : ~Waiting(t))

\* the sixth request is waiting at the gate, and the first of the five
\* admitted has just returned its token and released its permit
C19_PermitFreedForWaiter ==
    /\ \E t \in Tasks : Waiting(t)
    /\ svc.semaphore = 1
    /\ Cardinality(InsideGate) = MAX_CONCURRENT_REQUESTS - 1
    /\ \E u \in Tasks : Finished(u) /\ task[u].res.tok = Token

\* C20: in every state every page of the pool belongs to the shared context
\* the service holds, and that context is open; and every page there is was
\* created in a context the service had built.
C20_PagesWithinSession ==
    /\ \A k \in AllKeys :
           svc.page_cache[k] # 0 =>
               /\ svc.shared_context # 0
               /\ br.pageCtx[svc.page_cache[k]] = svc.shared_context
               /\ svc.shared_context \in br.liveCtx
    /\ \A p \in Pages(Cur) : br.pageCtx[p] \in 1 .. hist.contexts

\* C21: at most one browser launched by the service is alive in any state,
\* and a launched browser that is no longer alive was destroyed by a close().
C21_OneLiveBrowser ==
    /\ Cardinality(br.liveBrowsers) <= 1
    /\ \A b \in 1 .. hist.launches : b \notin br.liveBrowsers => hist.closes > 0

\* the executor of task t ended an attempt in this step
Attempted(t) == task[t].pc = "exec" /\ task'[t].attempts = task[t].attempts + 1

\* the attempt that ended in this step raised the navigation interruption
\* while an attempt remained
Interrupted(t) ==
    /\ task'[t].intr = task[t].intr + 1
    /\ task[t].i < MAX_EXECUTION_RETRIES - 1

\* C22: the executor makes a further attempt only after an attempt that raised
\* the navigation interruption with attempts remaining, and then it first
\* waits for the page to be stable, then backs off, then attempts again; an
\* attempt ending in any other way ends the request at once, with a Failure
\* unless it returned a token.
C22_RetryOnlyInterruptions ==
    [][\A t \in Tasks :
           /\ Attempted(t) /\ Interrupted(t)
                  => task'[t].pc = "exec_stable" /\ task'[t].i = task[t].i + 1
           /\ Attempted(t) /\ ~Interrupted(t)
                  => /\ Finished(t)'
                     /\ task'[t].token.kind # "token" => task'[t].res.tok = None
           /\ task[t].pc = "exec_stable" /\ task'[t].pc # "exec_stable"
                  => task'[t].pc = "exec_sleep" /\ task'[t].attempts = task[t].attempts
           /\ task[t].pc = "exec_sleep" /\ task'[t].pc # "exec_sleep"
                  => task'[t].pc = "exec" /\ task'[t].attempts = task[t].attempts
           /\ task[t].pc # "exec" /\ task'[t].pc = "exec" /\ task'[t].attempts > 0
                  => task[t].pc = "exec_sleep"]_vars

\* a request whose first attempt was interrupted and whose second attempt
\* returned the token
C22_RetriedAfterInterruption ==
    \E t \in Tasks :
        /\ Finished(t)
        /\ task[t].attempts = 2 /\ task[t].intr = 1
        /\ task[t].res.tok = Token

\* the phase of get_token that a position inside the gate belongs to:
\* 1 page pool, 2 navigation or reload, 3 readiness prober, 4 token executor
Phase(pc) ==
    IF pc \in {"sweep_lock", "cache_lock", "new_page"} THEN 1
    ELSE IF pc \in {"reload", "goto"} THEN 2
    ELSE IF pc \in ProbePcs THEN 3
    ELSE 4

\* C23: a request enters the gate by taking a permit and starts with the page
\* pool; inside the gate it goes from one phase to the next one only (pool,
\* navigation, readiness, execution), navigating only a page it got from the
\* pool; it leaves the gate only with its result, giving the permit back in
\* that step, and a token is returned only out of the execution phase.
C23_PhasesInOrder ==
    [][\A t \in Tasks :
           LET pc == task[t].pc
               pc2 == task'[t].pc
           IN  /\ pc \notin GatePcs /\ pc2 \in GatePcs
                      => /\ svc'.semaphore = svc.semaphore - 1
                         /\ Phase(pc2) <= 2
                         /\ Phase(pc2) = 2 => task'[t].lookup = "hit"
               /\ pc \in GatePcs /\ pc2 \in GatePcs /\ task'[t] # task[t]
                      => /\ Phase(pc2) \in {Phase(pc), Phase(pc) + 1}
                         /\ svc'.semaphore = svc.semaphore
               /\ pc2 \in GatePcs /\ Phase(pc2) >= 2
                      => task'[t].page # 0 /\ task'[t].lookup # "none"
               /\ pc \in GatePcs /\ pc2 \notin GatePcs
                      => /\ Finished(t)'
                         /\ svc'.semaphore = svc.semaphore + 1
               /\ task[t].op = "get_token" /\ ~Finished(t) /\ Finished(t)'
                  /\ task'[t].res.tok # None
                      => pc = "exec" /\ task'[t].probe \in {"Ready", "TimedOut"}]_vars

\* a request that created its page, navigated it, found the prober Ready and
\* returned the token of its first attempt, with the permit given back
C23_AllPhasesPassed ==
    \E t \in Tasks :
        /\ Finished(t)
        /\ task[t].op = "get_token"
        /\ hist.insertions = 1
        /\ task[t].probe = "Ready"
        /\ task[t].attempts = 1
        /\ task[t].res.tok = Token
        /\ svc.semaphore = MAX_CONCURRENT_REQUESTS

\* C24: the first callability check (with its one retry after a navigation)
\* is left either to the injection, when the function is not callable, or
\* directly to the executor with the prober Ready: no wait-for-condition and
\* no polling follows a first check that found the function callable.
C24_CallableGoesToReady ==
    [][\A t \in Tasks :
           (/\ task[t].pc \in {"check", "check_retry"}
            /\ task'[t].pc \notin {"check", "check_retry", "inj_exists"})
               => task'[t].pc = "exec" /\ task'[t].probe = "Ready"]_vars

\* C25: a first check that did not find the function callable puts the prober
\* in Injecting; the script is injected only into a page that has no such
\* script tag; and however the tag check and the injection end, the prober
\* goes on to Polling: the request is never ended there.
C25_InjectingLeadsToPolling ==
    [][\A t \in Tasks :
           LET pc == task[t].pc
               pc2 == task'[t].pc
           IN  /\ pc \in {"check", "check_retry"} /\ pc2 = "inj_exists"
                      => task'[t].probe = "Injecting"
               /\ pc = "inj_exists" /\ pc2 # pc
                      => /\ pc2 \in {"inj_load", "wait_fn"}
                         /\ pc2 = "inj_load" => task[t].page \notin br.tag
                         /\ br'.tag = br.tag
               /\ pc = "inj_load" /\ pc2 # pc
                      => /\ pc2 = "wait_fn"
                         /\ br'.tag \in {br.tag, br.tag \cup {task[t].page}}
               /\ pc \in {"inj_exists", "inj_load"} /\ pc2 = "wait_fn"
                      => task'[t].probe = "Polling" /\ task'[t].res.st = "none"]_vars

\* the wait-for-condition of a request whose injection failed: its page is
\* alive, has no script tag and the function is not callable
C25_PollingAfterFailedInjection ==
    \E t \in Tasks :
        /\ task[t].pc = "wait_fn"
        /\ task[t].probe = "Polling"
        /\ ~PageGone(Cur, task[t].page)
        /\ task[t].page \notin br.tag \cup br.ready

PollPcs == {"poll", "poll_stable"}

\* C26: explicit polling starts only when the wait-for-condition did not
\* succeed; it makes at most TIMEOUT_POLLING_MAX_ATTEMPTS callability checks;
\* a check on a live page whose function is callable, and only such a check,
\* ends the prober Ready at once; the prober is TimedOut only after the last
\* check failed; and a check interrupted by a navigation waits for the page
\* to be stable, after which polling goes on with the next check.
C26_PollingBounded ==
    [][\A t \in Tasks :
           LET pc == task[t].pc
               pc2 == task'[t].pc
               callable == ~PageGone(Cur, task[t].page) /\ task[t].page \in br.ready
               last == task[t].i = TIMEOUT_POLLING_MAX_ATTEMPTS - 1
           IN  /\ pc = "wait_fn" /\ pc2 # pc
                      => \/ pc2 = "exec" /\ task'[t].probe = "Ready" /\ callable
                         \/ pc2 = "poll" /\ task'[t].i = 0
               /\ pc \notin PollPcs /\ pc2 \in PollPcs => pc = "wait_fn"
               /\ pc2 \in PollPcs => task'[t].i < TIMEOUT_POLLING_MAX_ATTEMPTS
               /\ pc = "poll" /\ task'[t] # task[t]
                      => \/ pc2 = "exec" /\ task'[t].probe = "Ready" /\ callable
                         \/ pc2 = "exec" /\ task'[t].probe = "TimedOut" /\ last
                         \/ pc2 = "poll" /\ task'[t].i = task[t].i + 1
                         \/ pc2 = "poll_stable" /\ task'[t].i = task[t].i
               /\ pc = "poll" /\ task'[t] # task[t] /\ callable /\ env'.faults = env.faults
                      => pc2 = "exec" /\ task'[t].probe = "Ready"
               /\ pc = "poll_stable" /\ pc2 # pc
                      => \/ pc2 = "poll" /\ task'[t].i = task[t].i + 1
                         \/ pc2 = "exec" /\ task'[t].probe = "TimedOut" /\ last
               /\ task'[t].probe = "TimedOut" /\ task[t].probe # "TimedOut"
                      => pc \in PollPcs /\ last]_vars

\* the last but one check of a polling was interrupted by a navigation: the
\* request waits for the page to be stable and has one check left
C26_InterruptedCheckContinues ==
    \E t \in Tasks :
        /\ task[t].pc = "poll_stable"
        /\ task[t].i = TIMEOUT_POLLING_MAX_ATTEMPTS - 2
        /\ task[t].res.st = "none"

ResolvedByTimeout == js.resolved /\ js.result = ReadyTimeout

\* a resolved call stays resolved with the same result, and the extraction
\* function is invoked at most once and never after the call was resolved
ResolvedOnce ==
    [][/\ js.resolved => js'.resolved /\ js'.result = js.result /\ js'.invoked = js.invoked
       /\ js'.invoked <= 1
       /\ ResolvedByTimeout' => js'.invoked = 0]_vars

\* C27 (as stated): an extraction call that started with the function not
\* callable, and whose ready callback does not fire, is resolved with the
\* ready-callback-timeout error; and a call is resolved at most once.
C27_TimeoutUnlessReadyFires ==
    /\ ResolvedOnce
    /\ (js.pc = "running" /\ js.start # "callable")
           ~> (js.ready = "fired" \/ ResolvedByTimeout)

\* C27 (amended): the same, unless the periodic check, which the script uses
\* when the library had no ready function at the start, found the function
\* callable before the timeout.
C27_TimeoutUnlessReadyOrFound ==
    /\ ResolvedOnce
    /\ (js.pc = "running" /\ js.start # "callable")
           ~> (js.ready = "fired" \/ js.found \/ ResolvedByTimeout)

\* the ready callback fired after the timeout had resolved the call: the
\* extraction function was not invoked and the result is the timeout error
C27_LateReadyCallback ==
    /\ js.start = "ready"
    /\ js.timeoutId = "fired"
    /\ js.ready = "fired"
    /\ js.win = "callable"
    /\ ResolvedByTimeout
    /\ js.invoked = 0

\* C28: when every awaited call ends, every admitted request returns and
\* gives its permit back: from some point on no request is inside the gate
\* and all permits are free.
C28_AdmittedRequestsReturn ==
    <>[](InsideGate = {} /\ svc.semaphore = MAX_CONCURRENT_REQUESTS)

\* a request whose polling made all its checks in vain, and whose extraction
\* call then failed, has returned a Failure; no request is inside the gate
\* and all permits are free
C28_ReturnedAfterTimedOut ==
    /\ env.name = "busy"
    /\ InsideGate = {}
    /\ svc.semaphore = MAX_CONCURRENT_REQUESTS
    /\ \A t \in Tasks : Finished(t)
    /\ \E t \in Tasks : task[t].probe = "TimedOut" /\ task[t].res.tok = None

\* C29: a sweep runs with the pool lock free for it, so while no insertion is
\* under way; after it the pool holds exactly the entries whose page was
\* live, each under its key with its page, and no page was touched.
C29_SweepRemovesExactlyDead ==
    [][hist.sweeps' # hist.sweeps
           => /\ svc.page_cache_lock = 0
              /\ \A u \in Tasks : task[u].pc # "new_page"
              /\ \A k \in AllKeys :
                     LET p == svc.page_cache[k]
                     IN  /\ p # 0 /\ ~PageGone(Cur, p) => svc'.page_cache[k] = p
                         /\ p # 0 /\ PageGone(Cur, p) => svc'.page_cache[k] = 0
                         /\ p = 0 => svc'.page_cache[k] = 0
              /\ br' = br]_vars

\* two requests meet at a full pool: the second one found the
\* sweep due, waited for the pool lock while the first one inserted its page,
\* and then evicted the page that had crashed meanwhile
C29_SweptAfterWaitingForLock ==
    /\ env.name = "full"
    /\ hist.sweeps = 2
    /\ hist.insertions = CLEANUP_MODULUS + 1
    /\ Cardinality(br.dead) = 1
    /\ CacheSize(Cur) = CLEANUP_MODULUS
    /\ \A k \in AllKeys : svc.page_cache[k] # 0 => ~PageGone(Cur, svc.page_cache[k])

\* the page p is open in a live session
Open(b, p) == p \notin b.closed /\ b.pageCtx[p] \in b.liveCtx

\* C30: when a step of a request removes a page from the pool, by the sweep or
\* by the replacement of a stale entry at the lookup, that page is not open
\* afterwards.
C30_EvictedPagesClosed ==
    [][\A k \in AllKeys :
           LET p == svc.page_cache[k]
           IN  (/\ p # 0
                /\ svc'.page_cache[k] # p
                /\ \E t \in Tasks : task[t].op = "get_token" /\ task'[t] # task[t])
                   => ~Open(br', p)]_vars

\* C31: no request holds the pool lock while it navigates, probes or executes:
\* a request holds it only while it waits for the page it asked the session
\* for, to insert it; so a request that waits for the pool lock never waits
\* for a request that is using a page.
C31_LockOnlyForPool ==
    \A t \in Tasks :
        /\ task[t].pc \in UsePcs => svc.page_cache_lock # t
        /\ task[t].op = "get_token" /\ svc.page_cache_lock = t => task[t].pc = "new_page"
        /\ task[t].pc \in {"sweep_lock", "cache_lock"} /\ svc.page_cache_lock # 0
               => task[svc.page_cache_lock].pc \notin UsePcs

\* while one request executes on its page, another one has looked the pool
\* up, got its page and navigates, and the pool lock is free
C31_LookupWhilePageInUse ==
    \E t, u \in Tasks :
        /\ t # u
        /\ task[t].pc = "exec"
        /\ task[u].pc \in {"reload", "goto"}
        /\ task[u].lookup = "hit"
        /\ svc.page_cache_lock = 0

\* C32: the pool never holds one page under two keys, and two requests for
\* different keys that both hold a page hold different pages.
C32_KeysHaveOwnPages ==
    /\ \A k1, k2 \in AllKeys :
           k1 # k2 /\ svc.page_cache[k1] # 0 => svc.page_cache[k1] # svc.page_cache[k2]
    /\ \A t, u \in Tasks :
           (task[t].pc \in UsePcs /\ task[u].pc \in UsePcs /\ task[t].key # task[u].key)
               => task[t].page # task[u].page

\* a request for a pooled key and a request for a new key are both past the
\* pool and use their pages at the same time
C32_TwoKeysInUse ==
    \E t, u \in Tasks :
        /\ task[t].key = 1 /\ task[u].key = CLEANUP_MODULUS + 1
        /\ task[t].pc = "exec" /\ task[u].pc = "exec"
        /\ task[t].page # 0 /\ task[u].page # 0

\* C33: when several requests ask for the same key while it is absent from
\* the pool, one page is created for it: every page that was created was
\* entered in the pool, no more pages were created than there are keys, and
\* every request past the pool holds the page pooled under its key.
C33_OnePageForAbsentKey ==
    /\ Len(br.pageCtx) = hist.insertions
    /\ hist.insertions <= Cardinality(env.keys)
    /\ \A t \in Tasks :
           task[t].pc \in UsePcs
               => task[t].page # 0 /\ task[t].page = svc.page_cache[task[t].key]

\* five requests for the same key, which was absent when they arrived, use
\* the one page that the first of them created
C33_FiveShareThePage ==
    /\ hist.insertions = 1
    /\ Cardinality({t \in Tasks : task[t].pc \in UsePcs /\ task[t].page = 1})
           = MAX_CONCURRENT_REQUESTS
    /\ \E t \in Tasks : task[t].pc \in UsePcs /\ task[t].lookup = "miss"

\* C34: when a close() that ran with no other call in flight has returned,
\* the pool is empty and the service is not initialized, so that the next
\* get_token or initialize() constructs the engine and the session anew.
C34_ClosedServiceIsReusable ==
    \A t \in Tasks :
        ClosedAlone(t) =>
            /\ ~svc.initialized
            /\ \A k \in AllKeys : svc.page_cache[k] = 0

\* ------------------------------------------------- module-level accessor

\* bound: concurrent callers of one accessor or of one solver
NumCallers == 3

AccCallers == 1 .. NumCallers

\* a call not yet made; ret is the instance returned, 0 for None
NoAccCall == [pc |-> "idle", on |-> 0, block |-> "none", init |-> "none", ret |-> 0]

AccessorInit ==
    /\ env = ProbeScenario
    /\ svc = ServiceInit
    /\ br = BrowserInit
    /\ task = [t \in env.tasks |-> TaskInit]
    /\ hist = HistInit
    /\ route = NoRoute
    /\ js = NoCall
    /\ standalone = NoStandalone
    /\ solver = NoSolver
    /\ accessor \in {[NoAccessor EXCEPT !.call = [c \in AccCallers |-> NoAccCall],
                                        !.installed = i, !.faults = f] :
                         i \in BOOLEAN, f \in 0 .. MaxFaults}

acc_return(a, c, r) == [a EXCEPT !.call[c].pc = "done", !.call[c].ret = r]

\* initialize() of instance i, lines 95-101, entered while i is not
\* initialized: the caller takes the instance's lock or waits for it
acc_initialize(a, c, i, block) ==
    LET b == [a EXCEPT !.call[c].on = i, !.call[c].block = block]
    IN  IF a.services[i].lock = 0
        THEN [b EXCEPT !.services[i].lock = c, !.call[c].pc = "launch"]
        ELSE [b EXCEPT !.call[c].pc = "lock"]

\* get_recaptcha_service, lines 597-605: the global is read again
acc_ensure(a, c) ==
    IF a.global = 0 THEN [a EXCEPT !.call[c].pc = "raised"]
    ELSE IF ~a.services[a.global].initialized THEN acc_initialize(a, c, a.global, "ensure")
    ELSE acc_return(a, c, a.global)

\* get_recaptcha_service after its `await ... initialize()`: lines 588-594
\* and 597 on for the first block, lines 601-605 for the second
acc_resume(a, c, ok) ==
    LET b == [a EXCEPT !.call[c].init = IF ok THEN "ok" ELSE "raised"]
    IN  IF b.call[c].block = "create"
        THEN IF ok THEN acc_ensure(b, c)
             ELSE acc_return([b EXCEPT !.global = 0], c, 0)
        ELSE IF ok THEN acc_return(b, c, b.global)
             ELSE acc_return(b, c, 0)

Acc(a) == accessor' = a /\ UNCHANGED <<svc, br, task, env, hist, route, js, standalone, solver>>

\* get_recaptcha_service up to its first await, lines 571-600
AccStart(c) ==
    /\ accessor.call[c].pc = "idle"
    /\ IF ~accessor.installed THEN Acc(acc_return(accessor, c, 0))
       ELSE IF accessor.global = 0
       THEN LET i == Len(accessor.services) + 1
                a == [accessor EXCEPT
                         !.services = Append(@, [initialized |-> FALSE, lock |-> 0]),
                         !.global = i]
            IN  Acc(acc_initialize(a, c, i, "create"))
       ELSE Acc(acc_ensure(accessor, c))

\* initialize(), lines 98-100: the lock is granted and _initialized read again
AccLock(c) ==
    LET i == accessor.call[c].on
    IN  /\ accessor.call[c].pc = "lock"
        /\ accessor.services[i].lock = 0
        /\ IF accessor.services[i].initialized
           THEN Acc(acc_resume(accessor, c, TRUE))
           ELSE Acc([accessor EXCEPT !.services[i].lock = c, !.call[c].pc = "launch"])

\* initialize(), lines 102-137: the launch ends, well or with an exception
AccLaunched(c) ==
    LET i == accessor.call[c].on
    IN  /\ accessor.call[c].pc = "launch"
        /\ \/ Acc(acc_resume([accessor EXCEPT !.services[i].initialized = TRUE,
                                              !.services[i].lock = 0], c, TRUE))
           \/ /\ accessor.faults > 0
              /\ Acc(acc_resume([accessor EXCEPT !.services[i].lock = 0,
                                                 !.faults = @ - 1], c, FALSE))

AccessorNext ==
    \/ \E c \in AccCallers : AccStart(c)
    \/ \E c \in AccCallers : AccLock(c)
    \/ \E c \in AccCallers : AccLaunched(c)

AccessorSpec == AccessorInit /\ [][AccessorNext]_vars

\* C35: a call of get_recaptcha_service returns None only when the driver is
\* not installed or the initialize() it waited on raised; a call whose
\* initialize() succeeded returns an initialized instance; every instance
\* returned is initialized; every initialized instance is the global one.
C35_AccessorReturnsInitialized ==
    /\ \A c \in AccCallers :
           LET call == accessor.call[c]
           IN  call.pc = "done" =>
                   /\ call.ret = 0 => ~accessor.installed \/ call.init = "raised"
                   /\ call.init = "ok" => call.ret >= 1
                   /\ call.ret >= 1 => accessor.services[call.ret].initialized
    /\ \A i \in 1 .. Len(accessor.services) :
           accessor.services[i].initialized => accessor.global = i

\* --------------------------------------------------- freestanding service

\* get_token of the freestanding service probes readiness range(20) times
READY_PROBES == 20

\* the concurrent requests
SaRequests == 1 .. NumTasks

\* a request not yet made; ctx is the context it created, 0 for none
NoRequest == [pc |-> "idle", ctx |-> 0, i |-> 0, token |-> FALSE, ret |-> "none"]

StandaloneInit ==
    /\ env = ProbeScenario
    /\ svc = ServiceInit
    /\ br = BrowserInit
    /\ task = [t \in env.tasks |-> TaskInit]
    /\ hist = HistInit
    /\ route = NoRoute
    /\ js = NoCall
    /\ accessor = NoAccessor
    /\ solver = NoSolver
    /\ standalone = [NoStandalone EXCEPT !.req = [r \in SaRequests |-> NoRequest]]

\* get_token, lines 246-250: any exception of the body ends the request
\* with None
sa_except(sa, r) == [sa EXCEPT !.req[r].pc = "done", !.req[r].ret = "None"]

\* get_token, lines 121-244, from one await to the next. The outcome o of
\* the await is "ok", "no" (a falsy result; for context.close(), an
\* exception after the context was closed) or "raise".
sa_step(sa, r, o) ==
    LET q == sa.req[r]
        to(pc) == [sa EXCEPT !.req[r].pc = pc]
    IN  CASE q.pc = "new_context" ->
                 IF o = "raise" THEN sa_except(sa, r)
                 ELSE [sa EXCEPT !.contexts = Append(@, TRUE),
                                 !.req[r].ctx = Len(sa.contexts) + 1,
                                 !.req[r].pc = "new_page"]
          [] q.pc = "new_page" -> IF o = "raise" THEN sa_except(sa, r) ELSE to("goto")
          [] q.pc = "goto" -> to("check")
          [] q.pc = "check" ->
                 IF o = "raise" THEN sa_except(sa, r)
                 ELSE IF o = "ok" THEN to("probe") ELSE to("inject")
          [] q.pc = "inject" -> IF o = "raise" THEN sa_except(sa, r) ELSE to("probe")
          [] q.pc = "probe" ->
                 IF o = "raise" THEN sa_except(sa, r)
                 ELSE IF o = "ok" THEN to("settle") ELSE to("sleep")
          [] q.pc = "sleep" ->
                 IF q.i + 1 < READY_PROBES
                 THEN [sa EXCEPT !.req[r].i = q.i + 1, !.req[r].pc = "probe"]
                 ELSE to("settle")
          [] q.pc = "settle" -> IF o = "raise" THEN sa_except(sa, r) ELSE to("execute")
          [] q.pc = "execute" ->
                 IF o = "raise" THEN sa_except(sa, r)
                 ELSE [sa EXCEPT !.req[r].token = (o = "ok"), !.req[r].pc = "close"]
          [] q.pc = "close" ->
                 IF o = "raise" THEN sa_except(sa, r)
                 ELSE IF o = "no" THEN sa_except([sa EXCEPT !.contexts[q.ctx] = FALSE], r)
                 ELSE [sa EXCEPT !.contexts[q.ctx] = FALSE, !.req[r].pc = "done",
                                 !.req[r].ret = IF q.token THEN "token" ELSE "None"]

Sa(sa) == standalone' = sa /\ UNCHANGED <<svc, br, task, env, hist, route, js, accessor, solver>>

\* get_token, lines 116-117, and initialize, lines 82-87
SaInitialize(r) ==
    /\ standalone.req[r].pc \in {"idle", "lock"}
    /\ IF standalone.initialized THEN Sa([standalone EXCEPT !.req[r].pc = "new_context"])
       ELSE IF standalone.lock = 0
       THEN Sa([standalone EXCEPT !.lock = r, !.req[r].pc = "launch"])
       ELSE /\ standalone.req[r].pc = "idle"
            /\ Sa([standalone EXCEPT !.req[r].pc = "lock"])

\* initialize, lines 89-105: the launch ends; its exception leaves get_token
SaLaunched(r) ==
    /\ standalone.req[r].pc = "launch"
    /\ \/ Sa([standalone EXCEPT !.initialized = TRUE, !.browser = 1, !.lock = 0,
                                !.req[r].pc = "new_context"])
       \/ Sa([standalone EXCEPT !.lock = 0, !.req[r].pc = "done", !.req[r].ret = "raised"])

SaStep(r) ==
    /\ standalone.req[r].pc \notin {"idle", "lock", "launch", "done"}
    /\ \E o \in {"ok", "no", "raise"} : Sa(sa_step(standalone, r, o))

StandaloneNext ==
    \/ \E r \in SaRequests : SaInitialize(r)
    \/ \E r \in SaRequests : SaLaunched(r)
    \/ \E r \in SaRequests : SaStep(r)

StandaloneSpec == StandaloneInit /\ [][StandaloneNext]_vars

\* C36: in the freestanding service, when get_token has returned, the
\* browsing context it created is closed, whatever raised on the way.
C36_RequestContextsClosed ==
    \A r \in SaRequests :
        standalone.req[r].pc = "done" /\ standalone.req[r].ctx # 0
            => ~standalone.contexts[standalone.req[r].ctx]

\* ------------------------------------------------------ SelfRecaptchaSolver

SolCallers == 1 .. NumCallers

\* a call not yet made; pw is the driver it started, on the browser its
\* context was created on (0 for none)
NoSolCall == [pc |-> "idle", pw |-> 0, on |-> 0, ret |-> "none"]

SolverInit ==
    /\ env = ProbeScenario
    /\ svc = ServiceInit
    /\ br = BrowserInit
    /\ task = [t \in env.tasks |-> TaskInit]
    /\ hist = HistInit
    /\ route = NoRoute
    /\ js = NoCall
    /\ accessor = NoAccessor
    /\ standalone = NoStandalone
    /\ solver = [NoSolver EXCEPT !.call = [c \in SolCallers |-> NoSolCall]]

\* get_recaptcha_token, lines 207-211: any exception ends the call with None
sol_except(v, c) == [v EXCEPT !.call[c].pc = "done", !.call[c].ret = "None"]

\* get_recaptcha_token, line 81, after _init_browser returned: new_context
\* is looked up on self.browser, which is None until a launch has ended
sol_new_context(v, c) ==
    IF v.browser = 0 THEN sol_except(v, c)
    ELSE [v EXCEPT !.call[c].pc = "new_context", !.call[c].on = v.browser]

Sol(v) == solver' = v /\ UNCHANGED <<svc, br, task, env, hist, route, js, accessor, standalone>>

\* get_recaptcha_token, lines 77-81, and _init_browser, lines 53-54
SolStart(c) ==
    /\ solver.call[c].pc = "idle"
    /\ IF solver.playwright = 0
       THEN Sol([solver EXCEPT !.call[c].pc = "start"])
       ELSE Sol(sol_new_context(solver, c))

\* _init_browser, lines 54-57: start() ended; the driver is stored and the
\* launch begins
SolStarted(c) ==
    /\ solver.call[c].pc = "start"
    /\ \/ Sol([solver EXCEPT !.starts = @ + 1, !.playwright = solver.starts + 1,
                             !.call[c].pw = solver.starts + 1, !.call[c].pc = "launch"])
       \/ Sol(sol_except(solver, c))

\* _init_browser, lines 57-66: launch() ended; the browser is stored
SolLaunched(c) ==
    /\ solver.call[c].pc = "launch"
    /\ \/ Sol(sol_new_context([solver EXCEPT !.launches = @ + 1,
                                             !.browser = solver.launches + 1], c))
       \/ Sol(sol_except(solver, c))

\* get_recaptcha_token, lines 81-205: the context is created and the rest of
\* the call runs on it
SolContext(c) ==
    /\ solver.call[c].pc = "new_context"
    /\ \/ Sol([solver EXCEPT !.call[c].pc = "done", !.call[c].ret = "token"])
       \/ Sol([solver EXCEPT !.call[c].pc = "done", !.call[c].ret = "None"])

SolverNext ==
    \/ \E c \in SolCallers : SolStart(c)
    \/ \E c \in SolCallers : SolStarted(c)
    \/ \E c \in SolCallers : SolLaunched(c)
    \/ \E c \in SolCallers : SolContext(c)

SolverSpec == SolverInit /\ [][SolverNext]_vars

\* C37: under concurrent get_recaptcha_token calls on one solver the browser
\* is launched at most once, every call that creates a context creates it on
\* that browser, and none creates one before a launch has ended.
C37_BrowserLaunchedOnce ==
    /\ solver.launches <= 1
    /\ \A c \in SolCallers :
           solver.call[c].pc \in {"new_context", "done"} /\ solver.call[c].on # 0
               => solver.call[c].on = solver.browser /\ solver.launches >= 1

\* C38: the route handler issues exactly one verdict for a routed request:
\* one call of continue_() or abort(), never two and never none, and it is
\* the verdict of the policy.
C38_ExactlyOneVerdict ==
    Routed => Len(route.issued) = 1 /\ route.issued[1] = route.verdict

\* a request of class "other" to an unlisted host was aborted, and nothing
\* else was issued for it
C38_OtherAbortedOnce ==
    /\ Routed
    /\ route.request.resource_type = "other"
    /\ route.request.host = <<"example", ".", "com">>
    /\ route.request.path = <<"index">>
    /\ route.issued = <<"abort">>

=============================================================================
